---- MODULE Spec2Model ----
(***************************************************************************)
(* A model of the blog-analysis pipeline: the content normalizer           *)
(* (clean_content), the quote-aware pronoun detector                       *)
(* (count_personal_pronouns), the retrying, cost-tracked make_api_call and *)
(* BlogAnalyzer.analyze_content.                                           *)
(*                                                                         *)
(* A Python str is a sequence of one-element strings, one per code point.  *)
(* The four curly quotes are written by name: "LDQ" (U+201C), "RDQ"        *)
(* (U+201D), "LSQ" (U+2018), "RSQ" (U+2019).                               *)
(***************************************************************************)
EXTENDS Integers, Sequences, FiniteSets, TLC

VARIABLES
    json_input,     \* clean_content: the argument of the first call
    cleaned,        \* clean_content: outcome of clean_content(json_input)
    recleaned,      \* clean_content: outcome of clean_content(cleaned value)
    word_count,     \* calculate_word_count: outcome of calculate_word_count(cleaned value)
    text,           \* count_personal_pronouns: the argument
    pron_impl,      \* which count_personal_pronouns is called
    report,         \* count_personal_pronouns: the returned report
    api_impl,       \* which make_api_call is called
    service,        \* what the external service does on each attempt
    attempt,        \* make_api_call: number of attempts started
    retries,        \* make_api_call: the local variable retries
    response,       \* make_api_call: the local variable response
    api_result,     \* make_api_call: running, or how the call ended
    cost_tracker,   \* the module-level CostTracker instance
    reply,          \* analyze_content: what the client call produces
    analysis_type,  \* analyze_content: the axis
    analysis,       \* analyze_content: the returned AnalysisResult
    tracker_call,   \* CostTracker: the last method called, its arguments, the state before
    batch_impl,     \* which batch loop runs: create_blog_audit_df or process_batch
    names_bound,    \* make_analysis.py: whether the names of its commented-out import exist
    batch,          \* the articles of the batch: what the service does on each axis call
    batch_idx,      \* the number of loop iterations begun
    all_articles,   \* the records built so far (processed_articles in process_batch)
    axis_calls,     \* the analyze_* calls made for the article of the latest pass, in order
    batch_result,   \* running, or how the batch call ended
    store,          \* the file output/processed.json
    backups,        \* the files output/processed_backup_<stamp>.json, by stamp
    store_call,     \* load/save_processed_data: the last call and how it ended
    api_key_set,    \* whether ANTHROPIC_API_KEY is in the environment
    proc_articles,  \* process_all_content: the articles, what happens on each
    proc_idx,       \* process_all_content: the number of articles gone through
    proc_status,    \* process_all_content: not started, running, done or raised
    requests_sent,  \* the number of requests sent to the service
    save_log,       \* the save_processed_data calls made, in order
    axis_replies,   \* analyze_article: what the client call of each axis produces
    article_call,   \* analyze_article: not called, or how the call ended
    article_saved,  \* the caller of analyze_article: what it did with the record
    xlsx,           \* the file output/blog_audit.xlsx
    written_runs,   \* main: the data_rows of the runs that saved the file, in order
    run_count,      \* main: the number of runs made
    last_exit,      \* main: how the last run ended
    processed,      \* output/processed.json with its records: the record of each id
    save_history,   \* the record last saved under each id, and whether a write was cut short
    keyed_call      \* the last save of an article by its URL, and how it ended

cleanVars == <<json_input, cleaned, recleaned, word_count>>
pronVars == <<text, pron_impl, report>>
apiVars == <<api_impl, service, attempt, retries, response, api_result, cost_tracker>>
analyzeVars == <<reply, analysis_type, analysis>>
costVars == <<tracker_call>>
batchVars == <<batch_impl, names_bound, batch, batch_idx, all_articles, axis_calls, batch_result>>
storeVars == <<store, backups, store_call>>
processVars == <<api_key_set, proc_articles, proc_idx, proc_status, requests_sent, save_log>>
articleVars == <<axis_replies, article_call, article_saved>>
reportVars == <<xlsx, written_runs, run_count, last_exit>>
keyedVars == <<processed, save_history, keyed_call>>
otherVars == <<articleVars, reportVars, keyedVars>>
pipelineVars == <<costVars, batchVars, storeVars, processVars, otherVars>>
vars == <<json_input, cleaned, recleaned, word_count, text, pron_impl, report,
          api_impl, service, attempt, retries, response, api_result, cost_tracker,
          reply, analysis_type, analysis, tracker_call,
          batch_impl, names_bound, batch, batch_idx, all_articles, axis_calls, batch_result,
          store, backups, store_call,
          api_key_set, proc_articles, proc_idx, proc_status, requests_sent, save_log,
          axis_replies, article_call, article_saved, xlsx, written_runs, run_count, last_exit,
          processed, save_history, keyed_call>>

----------------------------------------------------------------------------
(* Characters and strings *)

Digits == {"0", "1", "2", "3", "4", "5", "6", "7", "8", "9"}

UpperLetters == <<"A", "B", "C", "D", "E", "F", "G", "H", "I", "J", "K", "L", "M",
                  "N", "O", "P", "Q", "R", "S", "T", "U", "V", "W", "X", "Y", "Z">>

LowerLetters == <<"a", "b", "c", "d", "e", "f", "g", "h", "i", "j", "k", "l", "m",
                  "n", "o", "p", "q", "r", "s", "t", "u", "v", "w", "x", "y", "z">>

\* str.lower() of one character
Lower(c) ==
    IF \E i \in 1..26 : UpperLetters[i] = c
    THEN LowerLetters[CHOOSE i \in 1..26 : UpperLetters[i] = c]
    ELSE c

\* \w of a Python str pattern
IsWordChar(c) ==
    \/ c \in Digits
    \/ c = "_"
    \/ \E i \in 1..26 : UpperLetters[i] = c \/ LowerLetters[i] = c

\* \s of a Python str pattern, and what str.strip() removes
IsSpace(c) == c \in {" ", "\t", "\n", "\r", "\f"}

\* s[i:j] with 1-based inclusive bounds; empty when j < i
Slice(s, i, j) == IF j < i THEN <<>> ELSE SubSeq(s, i, j)

\* s.startswith(lit, i)
StartsWithAt(s, i, lit) ==
    /\ i + Len(lit) - 1 <= Len(s)
    /\ \A k \in 1..Len(lit) : s[i + k - 1] = lit[k]

\* s.find(c, i): the first index >= i holding c, or 0 when there is none
Find(s, c, i) ==
    IF \E k \in i..Len(s) : s[k] = c
    THEN CHOOSE k \in i..Len(s) : s[k] = c /\ \A m \in i..(k - 1) : s[m] # c
    ELSE 0

\* str.strip()
Strip(s) ==
    IF \A k \in 1..Len(s) : IsSpace(s[k])
    THEN <<>>
    ELSE LET a == CHOOSE k \in 1..Len(s) :
                      ~IsSpace(s[k]) /\ \A m \in 1..(k - 1) : IsSpace(s[m])
             b == CHOOSE k \in 1..Len(s) :
                      ~IsSpace(s[k]) /\ \A m \in (k + 1)..Len(s) : IsSpace(s[m])
         IN  SubSeq(s, a, b)

\* the end (exclusive) of the longest run of characters in set cs starting at i
RunEnd(s, i, cs) ==
    IF \E k \in i..Len(s) : s[k] \notin cs
    THEN CHOOSE k \in i..Len(s) : s[k] \notin cs /\ \A m \in i..(k - 1) : s[m] \in cs
    ELSE Len(s) + 1

\* the element of a one-element set: { F(x) : x \in {e} } binds a local
\* variable x to the value of e, as an assignment does
Only(S) == CHOOSE r \in S : TRUE

----------------------------------------------------------------------------
(* json.loads: the standard library's decoder, on a str *)

JsonWs == {" ", "\t", "\n", "\r"}

HexDigits == Digits \cup {"a", "b", "c", "d", "e", "f", "A", "B", "C", "D", "E", "F"}

JLit(name) == [t |-> name]
JNum == [t |-> "number"]
JStr(s) == [t |-> "string", s |-> s]
JArr(items) == [t |-> "array", items |-> items]
JObj(members) == [t |-> "object", members |-> members]

ParseFail == [ok |-> FALSE, val |-> JLit("null"), next |-> 0]
ParseOk(v, n) == [ok |-> TRUE, val |-> v, next |-> n]

SkipWs(s, i) == RunEnd(s, i, JsonWs)

\* one escape sequence of a JSON string, at the backslash s[i]
Unescape(c) ==
    CASE c = "n" -> "\n"
      [] c = "t" -> "\t"
      [] c = "r" -> "\r"
      [] c = "f" -> "\f"
      [] c = "b" -> "BS"
      [] OTHER -> c

RECURSIVE ScanString(_, _, _)
\* the body of a string from index i (after the opening quote), acc the
\* characters decoded so far
ScanString(s, i, acc) ==
    IF i > Len(s) THEN ParseFail
    ELSE IF s[i] = "\"" THEN ParseOk(JStr(acc), i + 1)
    ELSE IF s[i] \in {"\n", "\t", "\r", "\f"} THEN ParseFail
    ELSE IF s[i] = "\\" THEN
        IF i + 1 > Len(s) THEN ParseFail
        ELSE IF s[i + 1] \in {"\"", "\\", "/", "b", "f", "n", "r", "t"}
        THEN ScanString(s, i + 2, Append(acc, Unescape(s[i + 1])))
        ELSE IF s[i + 1] = "u" /\ i + 5 <= Len(s)
                /\ \A k \in 2..5 : s[i + k] \in HexDigits
        THEN ScanString(s, i + 6, Append(acc, "U+"))
        ELSE ParseFail
    ELSE ScanString(s, i + 1, Append(acc, s[i]))

\* NUMBER_RE: (-?(?:0|[1-9]\d*))(\.\d+)?([eE][-+]?\d+)?
\* the end of the integer part whose first digit is at d0, or 0
IntEnd(s, d0) ==
    IF d0 > Len(s) \/ s[d0] \notin Digits THEN 0
    ELSE IF s[d0] = "0" THEN d0 + 1
    ELSE RunEnd(s, d0, Digits)

\* the end of the optional fraction that starts at index e
FracEnd(s, e) ==
    IF e + 1 <= Len(s) /\ s[e] = "." /\ s[e + 1] \in Digits
    THEN RunEnd(s, e + 1, Digits)
    ELSE e

\* the end of the optional exponent that starts at index e
ExpEnd(s, e) ==
    LET d == IF e + 1 <= Len(s) /\ s[e] \in {"e", "E"}
             THEN (IF s[e + 1] \in {"-", "+"} THEN e + 2 ELSE e + 1)
             ELSE 0
    IN  IF d # 0 /\ d <= Len(s) /\ s[d] \in Digits THEN RunEnd(s, d, Digits) ELSE e

ScanNumber(s, i) ==
    Only({ IF intEnd = 0 THEN ParseFail
           ELSE Only({ ParseOk(JNum, ExpEnd(s, fracEnd)) : fracEnd \in {FracEnd(s, intEnd)} }) :
           intEnd \in {IntEnd(s, IF i <= Len(s) /\ s[i] = "-" THEN i + 1 ELSE i)} })

RECURSIVE ScanValue(_, _)
RECURSIVE ScanArray(_, _, _)
RECURSIVE ScanObject(_, _, _)

\* scan_once: the value starting at index i
ScanValue(s, i) ==
    IF i > Len(s) THEN ParseFail
    ELSE IF s[i] = "\"" THEN ScanString(s, i + 1, <<>>)
    ELSE IF s[i] = "{" THEN
        LET j == SkipWs(s, i + 1)
        IN  IF j <= Len(s) /\ s[j] = "}" THEN ParseOk(JObj(<<>>), j + 1)
            ELSE ScanObject(s, j, <<>>)
    ELSE IF s[i] = "[" THEN
        LET j == SkipWs(s, i + 1)
        IN  IF j <= Len(s) /\ s[j] = "]" THEN ParseOk(JArr(<<>>), j + 1)
            ELSE ScanArray(s, j, <<>>)
    ELSE IF StartsWithAt(s, i, <<"n", "u", "l", "l">>) THEN ParseOk(JLit("null"), i + 4)
    ELSE IF StartsWithAt(s, i, <<"t", "r", "u", "e">>) THEN ParseOk(JLit("true"), i + 4)
    ELSE IF StartsWithAt(s, i, <<"f", "a", "l", "s", "e">>) THEN ParseOk(JLit("false"), i + 5)
    ELSE IF StartsWithAt(s, i, <<"N", "a", "N">>) THEN ParseOk(JNum, i + 3)
    ELSE IF StartsWithAt(s, i, <<"I", "n", "f", "i", "n", "i", "t", "y">>)
    THEN ParseOk(JNum, i + 8)
    ELSE IF StartsWithAt(s, i, <<"-", "I", "n", "f", "i", "n", "i", "t", "y">>)
    THEN ParseOk(JNum, i + 9)
    ELSE ScanNumber(s, i)

\* JSONArray, after an element v: a ']' ends the array, a ',' brings the next
ArrayAfter(s, v, items) ==
    Only({ IF j > Len(s) THEN ParseFail
           ELSE IF s[j] = "]" THEN ParseOk(JArr(Append(items, v.val)), j + 1)
           ELSE IF s[j] = "," THEN ScanArray(s, SkipWs(s, j + 1), Append(items, v.val))
           ELSE ParseFail :
           j \in {SkipWs(s, v.next)} })

\* JSONArray: the next element starts at index i, items are those read so far
ScanArray(s, i, items) ==
    Only({ IF ~v.ok THEN ParseFail ELSE ArrayAfter(s, v, items) : v \in {ScanValue(s, i)} })

\* JSONObject, after a member k: v: a '}' ends the object, a ',' brings the next
ObjectAfter(s, k, v, members) ==
    Only({ IF j > Len(s) THEN ParseFail
           ELSE IF s[j] = "}"
           THEN ParseOk(JObj(Append(members, [k |-> k.val.s, v |-> v.val])), j + 1)
           ELSE IF s[j] = ","
           THEN ScanObject(s, SkipWs(s, j + 1), Append(members, [k |-> k.val.s, v |-> v.val]))
           ELSE ParseFail :
           j \in {SkipWs(s, v.next)} })

\* JSONObject, after the key k: a ':' and the value
ObjectValue(s, k, members) ==
    Only({ IF c > Len(s) \/ s[c] # ":" THEN ParseFail
           ELSE Only({ IF ~v.ok THEN ParseFail ELSE ObjectAfter(s, k, v, members) :
                       v \in {ScanValue(s, SkipWs(s, c + 1))} }) :
           c \in {SkipWs(s, k.next)} })

\* JSONObject: the next key starts at index i, members are those read so far
ScanObject(s, i, members) ==
    IF i > Len(s) \/ s[i] # "\"" THEN ParseFail
    ELSE Only({ IF ~k.ok THEN ParseFail ELSE ObjectValue(s, k, members) :
                k \in {ScanString(s, i + 1, <<>>)} })

\* json.loads(s): ok is FALSE where it raises json.JSONDecodeError
json_loads(s) ==
    Only({ IF v.ok /\ SkipWs(s, v.next) = Len(s) + 1 THEN v ELSE ParseFail :
           v \in {ScanValue(s, SkipWs(s, 1))} })

\* "key in obj" for a parsed JSON object
HasKey(obj, key) == \E m \in 1..Len(obj.members) : obj.members[m].k = key

\* obj[key] for a parsed JSON object: the last member with that key
GetKey(obj, key) ==
    LET m == CHOOSE m \in 1..Len(obj.members) :
                 /\ obj.members[m].k = key
                 /\ \A n \in (m + 1)..Len(obj.members) : obj.members[n].k # key
    IN  obj.members[m].v

----------------------------------------------------------------------------
(* clean_content: src/helper.py (src/modular/article_processor.py holds a  *)
(* copy, line for line)                                                    *)

\* a str literal as a sequence of characters
Chars(str) == [i \in 1..Len(str) |-> SubSeq(str, i, i)]

Returned(v) == [exc |-> "none", val |-> v]
Raised(e) == [exc |-> e, val |-> <<>>]
NotCalled == [exc |-> "not called", val |-> <<>>]

\* the first index >= i holding a character for which IsSpace is TRUE, or Len(s) + 1
NonSpaceRunEnd(s, i) ==
    IF \E k \in i..Len(s) : IsSpace(s[k])
    THEN CHOOSE k \in i..Len(s) : IsSpace(s[k]) /\ \A m \in i..(k - 1) : ~IsSpace(s[m])
    ELSE Len(s) + 1

\* the end (exclusive) of the whitespace run starting at i
SpaceRunEnd(s, i) ==
    IF \E k \in i..Len(s) : ~IsSpace(s[k])
    THEN CHOOSE k \in i..Len(s) : ~IsSpace(s[k]) /\ \A m \in i..(k - 1) : IsSpace(s[m])
    ELSE Len(s) + 1

\* Each Match operator gives the end (exclusive) of the pattern's match that
\* starts at index i, or 0 when the pattern does not match there.

\* '.*?\]' from index i: the first ']' with no line break before it
LazyToBracket(s, i) ==
    LET k == Find(s, "]", i)
    IN  IF k # 0 /\ \A m \in i..(k - 1) : s[m] # "\n" THEN k + 1 ELSE 0

\* r'\[CONTENT IMAGE:.*?\]'
MatchImageMarker(s, i) ==
    IF StartsWithAt(s, i, Chars("[CONTENT IMAGE:")) THEN LazyToBracket(s, i + 15) ELSE 0

\* r'Source:\s*https?://\S+'
MatchSourceLine(s, i) ==
    IF ~StartsWithAt(s, i, Chars("Source:")) THEN 0
    ELSE LET h == SpaceRunEnd(s, i + 7)
             u == IF StartsWithAt(s, h, Chars("https://")) THEN h + 8
                  ELSE IF StartsWithAt(s, h, Chars("http://")) THEN h + 7
                  ELSE 0
         IN  IF u = 0 \/ u > Len(s) \/ IsSpace(s[u]) THEN 0 ELSE NonSpaceRunEnd(s, u)

\* r'H2:\s*'
MatchH2(s, i) ==
    IF StartsWithAt(s, i, Chars("H2:")) THEN SpaceRunEnd(s, i + 3) ELSE 0

\* r'\n{3,}'
MatchNewlines3(s, i) ==
    LET e == RunEnd(s, i, {"\n"})
    IN  IF e - i >= 3 THEN e ELSE 0

\* r'\n\s*\n': a line break, the longest whitespace run, cut back to its last line break
MatchBlankLines(s, i) ==
    IF i > Len(s) \/ s[i] # "\n" THEN 0
    ELSE LET e == SpaceRunEnd(s, i + 1)
         IN  IF \E k \in (i + 1)..(e - 1) : s[k] = "\n"
             THEN 1 + CHOOSE k \in (i + 1)..(e - 1) :
                          s[k] = "\n" /\ \A m \in (k + 1)..(e - 1) : s[m] # "\n"
             ELSE 0

\* r'[ \t]+'
MatchSpaces(s, i) ==
    LET e == RunEnd(s, i, {" ", "\t"})
    IN  IF e > i THEN e ELSE 0

\* r'\[.*?\]'
MatchBracket(s, i) ==
    IF i <= Len(s) /\ s[i] = "[" THEN LazyToBracket(s, i + 1) ELSE 0

MatchEnd(pat, s, i) ==
    CASE pat = "image" -> MatchImageMarker(s, i)
      [] pat = "source" -> MatchSourceLine(s, i)
      [] pat = "h2" -> MatchH2(s, i)
      [] pat = "newlines3" -> MatchNewlines3(s, i)
      [] pat = "blanklines" -> MatchBlankLines(s, i)
      [] pat = "spaces" -> MatchSpaces(s, i)
      [] pat = "bracket" -> MatchBracket(s, i)

Replacement(pat) ==
    CASE pat \in {"image", "source", "bracket"} -> <<>>
      [] pat = "h2" -> <<"#", "#", " ">>
      [] pat \in {"newlines3", "blanklines"} -> <<"\n", "\n">>
      [] pat = "spaces" -> <<" ">>

RECURSIVE ReSubFrom(_, _, _, _)
\* re.sub(pat, repl, s), resumed at index i with acc the output so far: the
\* leftmost match is replaced and the scan goes on after it
ReSubFrom(pat, s, i, acc) ==
    IF i > Len(s) THEN acc
    ELSE LET e == MatchEnd(pat, s, i)
         IN  IF e = 0
             THEN ReSubFrom(pat, s, i + 1, Append(acc, s[i]))
             ELSE ReSubFrom(pat, s, e, acc \o Replacement(pat))

re_sub(pat, s) == ReSubFrom(pat, s, 1, <<>>)

\* lines 21-38: the seven substitutions in order, then strip()
CleanText(content) ==
    LET Sub(pat, S) == { re_sub(pat, c) : c \in S }
    IN  Only({ Strip(c) :
               c \in Sub("bracket", Sub("spaces", Sub("blanklines", Sub("newlines3",
                         Sub("h2", Sub("source", Sub("image", {content}))))))) })

\* the content field of a parsed JSON object: data.get("content", "")
ContentOf(data) ==
    IF ~HasKey(data, Chars("content")) THEN Returned(<<>>)
    ELSE Only({ IF v.t = "string" THEN Returned(v.s) ELSE Raised("TypeError") :
                v \in {GetKey(data, Chars("content"))} })

\* lines 13-22: what the try block leaves in content, or the exception that
\* escapes: only json.JSONDecodeError is caught, data.get raises
\* AttributeError on a value that is no dict, and re.sub on line 22 raises
\* TypeError on a content that is no str
ExtractContent(input) ==
    Only({ IF ~p.ok THEN Returned(input)
           ELSE IF p.val.t # "object" THEN Raised("AttributeError")
           ELSE ContentOf(p.val) :
           p \in {json_loads(input)} })

clean_content(input) ==
    Only({ IF c.exc # "none" THEN c ELSE Returned(CleanText(c.val)) :
           c \in {ExtractContent(input)} })

\* len(s.split()): the number of runs of characters that are not blanks
SplitLen(s) ==
    Cardinality({ k \in 1..Len(s) : ~IsSpace(s[k]) /\ (k = 1 \/ IsSpace(s[k - 1])) })

\* calculate_word_count (article_processor.py lines 49-60)
calculate_word_count(content) ==
    Only({ IF clean_text.exc # "none" THEN [exc |-> clean_text.exc, val |-> 0]
           ELSE [exc |-> "none", val |-> SplitLen(clean_text.val)] :
           clean_text \in {clean_content(content)} })

----------------------------------------------------------------------------
(* The clean_content specification: one input, cleaned, then the result    *)
(* cleaned again                                                           *)

MaxRawLen == 4

RawAlphabet == {"[", "]", "\n", "a", " ", "2"}

RECURSIVE StringsUpTo(_, _)
\* every string over alphabet of length at most n
StringsUpTo(alphabet, n) ==
    IF n = 0 THEN {<<>>}
    ELSE LET shorter == StringsUpTo(alphabet, n - 1)
         IN  shorter \cup {Append(w, c) : w \in shorter, c \in alphabet}

CleanExamples ==
    { Chars("123"), Chars("\"x\""), Chars("null"), Chars("true"), Chars("[1, 2]"),
      Chars("{\"content\": 5}"), Chars("{\"title\": \"a\"}"),
      Chars("{\"content\": \"H2: Title\\n\\nSome text.\\n\\n\\n\\nMore.\"}"),
      Chars("{\"content\": \"a [x] b\", \"url\": null}"),
      Chars("H2: Title\n\nSome text.\n\n\n\nMore."),
      Chars("[CONTENT IMAGE: x.png] a\nSource: https://x.y/z\nb"),
      Chars("H[x]2:a"), Chars("a [x] b"), Chars("a[[x]b]c"),
      Chars("a\n[x]\n\nb"), Chars("a\nSource: http://x\n\nb"),
      Chars("a[x\ny]b"), Chars("a \n\t\n b") }

CleanInputs == StringsUpTo(RawAlphabet, MaxRawLen) \cup CleanExamples

PronIdle == text = <<>> /\ pron_impl = "none" /\ report = [called |-> FALSE]

ApiIdle ==
    /\ api_impl = "none"
    /\ service = <<>>
    /\ attempt = 0
    /\ retries = 0
    /\ response = [bound |-> FALSE, text |-> <<>>]
    /\ api_result = [status |-> "not called"]
    /\ cost_tracker = [cost |-> 0, input_tokens |-> 0, output_tokens |-> 0]

AnalyzeIdle ==
    /\ reply = [kind |-> "none", text |-> <<>>]
    /\ analysis_type = "none"
    /\ analysis = [called |-> FALSE]

CleanIdle ==
    /\ json_input = <<>>
    /\ cleaned = NotCalled
    /\ recleaned = NotCalled
    /\ word_count = [exc |-> "not called", val |-> 0]

CostIdle == tracker_call = [op |-> "none"]

BatchIdle ==
    /\ batch_impl = "none"
    /\ names_bound = FALSE
    /\ batch = <<>>
    /\ batch_idx = 0
    /\ all_articles = <<>>
    /\ axis_calls = <<>>
    /\ batch_result = [status |-> "not called"]

StoreIdle ==
    /\ store = [exists |-> FALSE, kind |-> "none", ids |-> {}]
    /\ backups = <<>>
    /\ store_call = [op |-> "none"]

ProcessIdle ==
    /\ api_key_set = FALSE
    /\ proc_articles = <<>>
    /\ proc_idx = 0
    /\ proc_status = "not called"
    /\ requests_sent = 0
    /\ save_log = <<>>

ArticleIdle ==
    /\ axis_replies = <<>>
    /\ article_call = [status |-> "not called"]
    /\ article_saved = "no"

ReportIdle ==
    /\ xlsx = [exists |-> FALSE, rows |-> <<>>]
    /\ written_runs = <<>>
    /\ run_count = 0
    /\ last_exit = "none"

KeyedIdle ==
    /\ processed = [kind |-> "absent", data |-> [id \in {} |-> id]]
    /\ save_history = [saved |-> [id \in {} |-> id], torn |-> FALSE]
    /\ keyed_call = [op |-> "none"]

OtherIdle == ArticleIdle /\ ReportIdle /\ KeyedIdle

PipelineIdle == CostIdle /\ BatchIdle /\ StoreIdle /\ ProcessIdle /\ OtherIdle

InitClean ==
    /\ json_input \in CleanInputs
    /\ cleaned = NotCalled
    /\ recleaned = NotCalled
    /\ word_count = [exc |-> "not called", val |-> 0]
    /\ PronIdle /\ ApiIdle /\ AnalyzeIdle /\ PipelineIdle

\* cleaned = clean_content(json_input)
CallCleanContent ==
    /\ cleaned.exc = "not called"
    /\ cleaned' = clean_content(json_input)
    /\ UNCHANGED <<json_input, recleaned, word_count, pronVars, apiVars, analyzeVars, pipelineVars>>

\* recleaned = clean_content(cleaned), once the first call has returned
CallCleanContentAgain ==
    /\ cleaned.exc = "none"
    /\ recleaned.exc = "not called"
    /\ recleaned' = clean_content(cleaned.val)
    /\ UNCHANGED <<json_input, cleaned, word_count, pronVars, apiVars, analyzeVars, pipelineVars>>

\* 'Word Count': calculate_word_count(clean_text), where clean_text is
\* clean_content(content) (batch_processor.py lines 91 and 128)
CallCalculateWordCount ==
    /\ cleaned.exc = "none"
    /\ word_count.exc = "not called"
    /\ word_count' = calculate_word_count(cleaned.val)
    /\ UNCHANGED <<json_input, cleaned, recleaned, pronVars, apiVars, analyzeVars, pipelineVars>>

NextClean == CallCleanContent \/ CallCleanContentAgain \/ CallCalculateWordCount

SpecClean == InitClean /\ [][NextClean]_vars

\* C4: clean_content never raises and always returns a string, for every
\* input string, whether or not the input parses as JSON.
C4_NeverRaises == cleaned.exc \in {"not called", "none"}

\* C5: clean_content is idempotent: whenever clean_content(x) and
\* clean_content(clean_content(x)) both return, they return the same string.
C5_Idempotent ==
    (cleaned.exc = "none" /\ recleaned.exc = "none") => recleaned.val = cleaned.val

\* C6: the output of clean_content holds no '[' with a ']' after it.
C6_NoBracketedSubstring ==
    cleaned.exc = "none" =>
        ~\E i, j \in 1..Len(cleaned.val) :
            i < j /\ cleaned.val[i] = "[" /\ cleaned.val[j] = "]"

\* C7: the output of clean_content holds no three consecutive line breaks.
C7_NoTripleNewline ==
    cleaned.exc = "none" =>
        ~\E i \in 1..(Len(cleaned.val) - 2) :
            \A k \in 0..2 : cleaned.val[i + k] = "\n"

\* C30: the Word Count of a record is len(clean_content(raw).split()), the
\* number of words of the cleaned text that goes to the analysis calls,
\* although calculate_word_count cleans that text once more.
C30_WordCountOfCleanedText ==
    word_count.exc = "none" => word_count.val = SplitLen(cleaned.val)

----------------------------------------------------------------------------
(* count_personal_pronouns: src/make_analysis.py ("make_analysis") and     *)
(* src/modular/article_processor.py ("modular"). Offsets are Python's,     *)
(* counted from 0.                                                         *)

At(s, p) == s[p + 1]

\* s[a:b]
Slice0(s, a, b) == Slice(s, a + 1, b)

\* s.find(c, from): -1 when there is none
Find0(s, c, from) == Find(s, c, from + 1) - 1

Min(S) == CHOOSE x \in S : \A y \in S : x <= y

\* quote_pairs: opening quote -> closing quote
quote_pairs(impl) ==
    IF impl = "make_analysis"
    THEN ("\"" :> "\"") @@ ("LDQ" :> "RDQ") @@ ("LSQ" :> "RSQ")
    ELSE ("\"" :> "\"") @@ ("'" :> "'")

\* the for loop over quote_pairs.keys(): the least offset >= current_pos of an
\* opening quote, or -1 when next_quote stays None
NextOpener(pairs, s, current_pos) ==
    LET hits == {Find0(s, q, current_pos) : q \in DOMAIN pairs} \ {-1}
    IN  IF hits = {} THEN -1 ELSE Min(hits)

\* a variant of QuoteEnd that runs an unclosed region one offset past the text
QuoteEndPastText(pairs, s, start) ==
    LET e == Find0(s, pairs[At(s, start)], start + 1)
    IN  IF e = -1 THEN Len(s) ELSE e

\* end of the region opened at start: the matching closer, else the last offset
QuoteEnd(pairs, s, start) ==
    LET e == Find0(s, pairs[At(s, start)], start + 1)
    IN  IF e = -1 THEN Len(s) - 1 ELSE e

RECURSIVE QuoteScan(_, _, _, _)
\* the while loop that detects quoted regions
QuoteScan(pairs, s, current_pos, quotes) ==
    IF current_pos >= Len(s) THEN quotes
    ELSE Only({ IF start = -1 THEN quotes
                ELSE Only({ QuoteScan(pairs, s, end + 1, Append(quotes, <<start, end>>)) :
                            end \in {QuoteEnd(pairs, s, start)} }) :
                start \in {NextOpener(pairs, s, current_pos)} })

DetectQuotes(impl, s) == QuoteScan(quote_pairs(impl), s, 0, <<>>)

\* a variant of is_in_quotes that leaves the two delimiters out of the region
is_in_quotes_exclusive(quotes, pos) ==
    \E k \in 1..Len(quotes) : quotes[k][1] < pos /\ pos < quotes[k][2]

is_in_quotes(quotes, pos) ==
    \E k \in 1..Len(quotes) : quotes[k][1] <= pos /\ pos <= quotes[k][2]

\* a variant of AddSentence that cuts the span one character short
AddSentenceShort(acc, s, start, end) ==
    Only({ IF sentence = <<>> THEN acc
           ELSE Append(acc, [sentence |-> sentence, s_start |-> start, s_end |-> end]) :
           sentence \in {Strip(Slice0(s, start, end - 1))} })

\* sentences.append((sentence, start, end)) unless the stripped span is empty
AddSentence(acc, s, start, end) ==
    Only({ IF sentence = <<>> THEN acc
           ELSE Append(acc, [sentence |-> sentence, s_start |-> start, s_end |-> end]) :
           sentence \in {Strip(Slice0(s, start, end))} })

\* the offsets from p on that hold a sentence ending
EndingsFrom(s, p) == {q \in p..(Len(s) - 1) : At(s, q) \in {".", "!", "?"}}

RECURSIVE SentenceScan(_, _, _)
\* the loop over sentence_endings.finditer(text) from the ending after
\* start on, and the remaining text after the last ending
SentenceScan(s, start, acc) ==
    Only({ IF ends = {}
           THEN (IF start < Len(s) THEN AddSentence(acc, s, start, Len(s)) ELSE acc)
           ELSE Only({ SentenceScan(s, Min(ends) + 1, longer) :
                       longer \in {AddSentence(acc, s, start, Min(ends) + 1)} }) :
           ends \in {EndingsFrom(s, start)} })

Sentences(s) == SentenceScan(s, 0, <<>>)

\* the alternatives of r'\b(I|me|my|mine|myself)\b', in order, lower-cased
PronounWords == <<Chars("i"), Chars("me"), Chars("my"), Chars("mine"), Chars("myself")>>

\* whether alternative w followed by \b matches at offset p, ignoring case
AlternativeAt(s, p, w) ==
    /\ p + Len(w) <= Len(s)
    /\ \A k \in 1..Len(w) : Lower(At(s, p + k - 1)) = w[k]
    /\ (p + Len(w) = Len(s) \/ ~IsWordChar(At(s, p + Len(w))))

\* the length of the match of the pronoun pattern at offset p, or 0
MatchPronounAt(s, p) ==
    IF p > 0 /\ IsWordChar(At(s, p - 1)) THEN 0
    ELSE IF \E a \in 1..Len(PronounWords) : AlternativeAt(s, p, PronounWords[a])
    THEN Len(PronounWords[CHOOSE a \in 1..Len(PronounWords) :
                 /\ AlternativeAt(s, p, PronounWords[a])
                 /\ \A b \in 1..(a - 1) : ~AlternativeAt(s, p, PronounWords[b])])
    ELSE 0

RECURSIVE PronounScan(_, _, _)
\* re.finditer(pronouns, text, re.IGNORECASE): the matches from offset p on,
\* left to right
PronounScan(s, p, acc) ==
    Only({ IF starts = {} THEN acc
           ELSE Only({ PronounScan(s, next, longer) :
                       next \in {Min(starts) + MatchPronounAt(s, Min(starts))},
                       longer \in {Append(acc, [start |-> Min(starts),
                                                group |-> Slice0(s, Min(starts),
                                                    Min(starts) + MatchPronounAt(s, Min(starts)))])} }) :
           starts \in {{q \in p..(Len(s) - 1) : MatchPronounAt(s, q) > 0}} })

PronounMatches(s) == PronounScan(s, 0, <<>>)

\* matches: the matches that pass "if not is_in_quotes(match.start())"
CountedMatches(quotes, all) ==
    LET Outside(m) == ~is_in_quotes(quotes, m.start)
    IN  SelectSeq(all, Outside)

\* the inner for loop: the sentences that pass the loop's test for a match at pos
SentenceHits(impl, sentences, pos, seen) ==
    { j \in 1..Len(sentences) :
        /\ sentences[j].s_start <= pos
        /\ pos < sentences[j].s_end
        /\ (impl = "modular" => \A k \in 1..Len(seen) : seen[k] # sentences[j].sentence) }

RECURSIVE Attribute(_, _, _, _, _)
\* sentences_with_pronouns after the matches k.. are handled, acc before them
Attribute(impl, sentences, matches, k, acc) ==
    IF k > Len(matches) THEN acc
    ELSE Only({ IF hits = {} THEN Attribute(impl, sentences, matches, k + 1, acc)
                ELSE IF \E n \in 1..Len(acc) : acc[n] = sentences[Min(hits)].sentence
                THEN Attribute(impl, sentences, matches, k + 1, acc)
                ELSE Attribute(impl, sentences, matches, k + 1,
                               Append(acc, sentences[Min(hits)].sentence)) :
                hits \in {SentenceHits(impl, sentences, matches[k].start, acc)} })

\* a variant of BuildReport whose flag is len(matches) >= 0
BuildReportFlagAlways(quotes, matches, sentences_with_pronouns) ==
    [ called |-> TRUE,
      count |-> Len(matches),
      found_pronouns |-> [k \in 1..Len(matches) |-> matches[k].group],
      quoted_regions |-> quotes,
      sentences_with_pronouns |-> sentences_with_pronouns,
      flag |-> Len(matches) >= 0 ]

\* the returned dict
BuildReport(quotes, matches, sentences_with_pronouns) ==
    [ called |-> TRUE,
      count |-> Len(matches),
      found_pronouns |-> [k \in 1..Len(matches) |-> matches[k].group],
      quoted_regions |-> quotes,
      sentences_with_pronouns |-> sentences_with_pronouns,
      flag |-> Len(matches) > 0 ]

count_personal_pronouns(impl, s) ==
    Only({ Only({ Only({ BuildReport(quotes, matches,
                                     Attribute(impl, sentences, matches, 1, <<>>)) :
                         sentences \in {Sentences(s)} }) :
                  matches \in {CountedMatches(quotes, PronounMatches(s))} }) :
           quotes \in {DetectQuotes(impl, s)} })

----------------------------------------------------------------------------
(* The count_personal_pronouns specification: one text, one call *)

MaxTextLen == 3

PronAlphabet == {"I", "m", "e", " ", ".", "\"", "LDQ", "RDQ", "'"}

SheSaid == Chars("She said \"I love this\" but I disagree.")

PronExamples ==
    { SheSaid,
      Chars("Dr. Smith told me. I agreed! Is it mine? My time"),
      Chars("we said so. \"I did it myself\" he said. then i left. i did"),
      Chars("He said ") \o <<"LDQ">> \o Chars("I am") \o <<"RDQ">> \o Chars(" and I am. It") \o <<"'">>
          \o Chars("s my call, I") \o <<"'">> \o Chars("m sure."),
      Chars("Time is my_own. Imy I2 me!me \"my"),
      Chars("no pronoun here. none at all"),
      Chars("I said ") \o <<"LSQ">> \o Chars("me") \o <<"RSQ">> \o Chars(" and ")
          \o <<"LSQ">> \o Chars("my"),
      Chars("I'm sure it's mine") }

PronTexts == StringsUpTo(PronAlphabet, MaxTextLen) \cup PronExamples

InitPron ==
    /\ text \in PronTexts
    /\ pron_impl \in {"make_analysis", "modular"}
    /\ report = [called |-> FALSE]
    /\ CleanIdle /\ ApiIdle /\ AnalyzeIdle /\ PipelineIdle

\* report = count_personal_pronouns(text)
CallCountPersonalPronouns ==
    /\ ~report.called
    /\ report' = count_personal_pronouns(pron_impl, text)
    /\ UNCHANGED <<text, pron_impl, cleanVars, apiVars, analyzeVars, pipelineVars>>

NextPron == CallCountPersonalPronouns

SpecPron == InitPron /\ [][NextPron]_vars

\* the offsets at which a whole word of the text is, ignoring case, one of
\* I, me, my, mine, myself
WholeWordPronounStarts(s) ==
    { p \in 0..(Len(s) - 1) :
        /\ IsWordChar(At(s, p))
        /\ (p = 0 \/ ~IsWordChar(At(s, p - 1)))
        /\ LET e == CHOOSE q \in (p + 1)..Len(s) :
                        /\ (q = Len(s) \/ ~IsWordChar(At(s, q)))
                        /\ \A r \in p..(q - 1) : IsWordChar(At(s, r))
               word == [k \in 1..(e - p) |-> Lower(At(s, p + k - 1))]
           IN  \E a \in 1..Len(PronounWords) : PronounWords[a] = word }

\* the offsets of s that lie in no recorded region, delimiters included
OutsideRegions(quotes, P) ==
    { p \in P : \A k \in 1..Len(quotes) : p < quotes[k][1] \/ p > quotes[k][2] }

\* C8: count_personal_pronouns counts exactly the whole-word occurrences of
\* I, me, my, mine, myself (any case) whose start offset lies outside every
\* recorded quote region, in text order; for 'She said "I love this" but I
\* disagree.' that is one occurrence, the I at offset 27.
C8_CountsExactlyUnquoted ==
    report.called =>
        LET counted == CountedMatches(report.quoted_regions, PronounMatches(text))
            expected == OutsideRegions(report.quoted_regions, WholeWordPronounStarts(text))
        IN  /\ report.count = Cardinality(expected)
            /\ Len(counted) = report.count
            /\ {counted[k].start : k \in 1..Len(counted)} = expected
            /\ \A k \in 1..(Len(counted) - 1) : counted[k].start < counted[k + 1].start
            /\ \A k \in 1..Len(counted) :
                   report.found_pronouns[k] =
                       Slice0(text, counted[k].start,
                              counted[k].start + Len(report.found_pronouns[k]))
            /\ (text = SheSaid =>
                   /\ report.count = 1
                   /\ counted[1].start = 27
                   /\ report.found_pronouns = <<Chars("I")>>)

\* a text with a pronoun inside a region that is discarded and one outside
\* that is counted
C8_Witness ==
    /\ report.called
    /\ report.count >= 1
    /\ Cardinality(WholeWordPronounStarts(text)) > report.count

\* C9 (as amended): for 'She said "I love this" but I disagree.' exactly one
\* sentence is recorded in sentences_with_pronouns, and it is the whole text,
\* the only sentence the segmentation finds.
C9_SheSaidWholeSentence ==
    (report.called /\ text = SheSaid) => report.sentences_with_pronouns = <<SheSaid>>

\* C9 (as claimed): the one recorded sentence is the span 'but I disagree.'
C9_SheSaidButIDisagree ==
    (report.called /\ text = SheSaid) =>
        report.sentences_with_pronouns = <<Chars("but I disagree.")>>

C9_Witness ==
    /\ report.called
    /\ text = SheSaid
    /\ Len(report.sentences_with_pronouns) = 1

\* C10: in every report count is the length of found_pronouns and flag is
\* (count > 0); a text with no first-person pronoun gives count 0, flag False.
C10_CountFlagConsistent ==
    report.called =>
        /\ report.count = Len(report.found_pronouns)
        /\ report.flag = (report.count > 0)
        /\ (WholeWordPronounStarts(text) = {} => report.count = 0 /\ report.flag = FALSE)

\* a non-empty text without a first-person pronoun, reported
C10_Witness ==
    /\ report.called
    /\ Len(text) > 0
    /\ WholeWordPronounStarts(text) = {}
    /\ report.count = 0
    /\ report.flag = FALSE

\* whether text holds character c at some offset of from..(Len(text) - 1)
HasFrom(s, c, from) == \E p \in from..(Len(s) - 1) : At(s, p) = c

\* C23: quoted_regions is well formed for every text, unbalanced quotes
\* included: each region has 0 <= start <= end <= len(text) - 1 and an opening
\* delimiter at start, each start is greater than the end before it, an
\* opener without a closer after it gives the last region, which ends at the
\* last character, and the scan ends after at most one pass per character.
C23_QuotedRegionsWellFormed ==
    report.called =>
        /\ \A k \in 1..Len(report.quoted_regions) :
              /\ 0 <= report.quoted_regions[k][1]
              /\ report.quoted_regions[k][1] <= report.quoted_regions[k][2]
              /\ report.quoted_regions[k][2] <= Len(text) - 1
              /\ At(text, report.quoted_regions[k][1]) \in DOMAIN quote_pairs(pron_impl)
              /\ k > 1 => report.quoted_regions[k][1] > report.quoted_regions[k - 1][2]
              /\ ~HasFrom(text,
                          quote_pairs(pron_impl)[At(text, report.quoted_regions[k][1])],
                          report.quoted_regions[k][1] + 1)
                 => /\ k = Len(report.quoted_regions)
                    /\ report.quoted_regions[k][2] = Len(text) - 1
        /\ Len(report.quoted_regions) <= Len(text)

\* a closed region followed by an opener that nothing closes
C23_Witness ==
    /\ report.called
    /\ Len(report.quoted_regions) = 2
    /\ report.quoted_regions[1][2] > report.quoted_regions[1][1]
    /\ ~HasFrom(text, quote_pairs(pron_impl)[At(text, report.quoted_regions[2][1])],
                report.quoted_regions[2][1] + 1)
    /\ report.quoted_regions[2][2] = Len(text) - 1

\* C24: only the straight double quote, the curly double quote and the curly
\* single quote open a region, in either implementation: in a text whose only
\* quote-like characters are straight apostrophes quoted_regions is empty and
\* every first-person pronoun is counted.
C24_ApostropheOpensNothing ==
    report.called =>
        /\ \A k \in 1..Len(report.quoted_regions) :
              At(text, report.quoted_regions[k][1]) \in {"\"", "LDQ", "LSQ"}
        /\ (\A p \in 0..(Len(text) - 1) : At(text, p) \notin {"\"", "LDQ", "RDQ", "LSQ", "RSQ"})
              => /\ report.quoted_regions = <<>>
                 /\ report.count = Cardinality(WholeWordPronounStarts(text))

----------------------------------------------------------------------------
(* make_api_call and the CostTracker: src/ai_analysis.py ("live") and      *)
(* src/depr/ai_analysis.py ("depr")                                        *)

\* the default of the parameter max_retries
max_retries == 2

\* add_usage's rates, in dollars per million tokens
InputCostPerMTok == 3
OutputCostPerMTok == 15

\* CostTracker.__init__; cost is kept in millionths of a dollar
NewCostTracker == [cost |-> 0, input_tokens |-> 0, output_tokens |-> 0]

\* a variant of add_usage with the two rates exchanged
add_usage_rates_swapped(tracker, input_tokens, output_tokens) ==
    [ cost |-> tracker.cost + input_tokens * OutputCostPerMTok
                            + output_tokens * InputCostPerMTok,
      input_tokens |-> tracker.input_tokens + input_tokens,
      output_tokens |-> tracker.output_tokens + output_tokens ]

\* CostTracker.add_usage
add_usage(tracker, input_tokens, output_tokens) ==
    [ cost |-> tracker.cost + input_tokens * InputCostPerMTok
                            + output_tokens * OutputCostPerMTok,
      input_tokens |-> tracker.input_tokens + input_tokens,
      output_tokens |-> tracker.output_tokens + output_tokens ]

\* a code fence: three backquotes, each written "BQ" in the model
Fence == <<"BQ", "BQ", "BQ">>

\* the pattern of line 90: a fence, word characters, an optional newline
MatchFence(s, i) ==
    IF ~StartsWithAt(s, i, Fence) THEN 0
    ELSE Only({ IF e <= Len(s) /\ s[e] = "\n" THEN e + 1 ELSE e :
                e \in {IF \E k \in (i + 3)..Len(s) : ~IsWordChar(s[k])
                       THEN CHOOSE k \in (i + 3)..Len(s) :
                                ~IsWordChar(s[k]) /\ \A m \in (i + 3)..(k - 1) : IsWordChar(s[m])
                       ELSE Len(s) + 1} })

RECURSIVE RemoveFencesFrom(_, _, _)
\* re.sub of line 90 with the empty replacement, resumed at index i
RemoveFencesFrom(s, i, acc) ==
    IF i > Len(s) THEN acc
    ELSE Only({ IF e = 0 THEN RemoveFencesFrom(s, i + 1, Append(acc, s[i]))
                ELSE RemoveFencesFrom(s, e, acc) :
                e \in {MatchFence(s, i)} })

\* depr lines 85-90: strip, and with a leading fence remove the fences and strip
StripMarkdown(reply_text) ==
    Only({ IF StartsWithAt(t, 1, Fence) THEN Strip(RemoveFencesFrom(t, 1, <<>>)) ELSE t :
           t \in {Strip(reply_text)} })

\* the characters [\w\s] of the key part of fix_json_quotes' pattern
IsKeyChar(c) == IsWordChar(c) \/ IsSpace(c)

\* the index of the character after the run of characters c with P(c) from i
KeyRunEnd(s, i) ==
    IF \E k \in i..Len(s) : ~IsKeyChar(s[k])
    THEN CHOOSE k \in i..Len(s) : ~IsKeyChar(s[k]) /\ \A m \in i..(k - 1) : IsKeyChar(s[m])
    ELSE Len(s) + 1

\* whether '"(?=\s*[,}])' matches at index e: a quote, then blanks, then , or }
ClosesValue(s, e) ==
    /\ e <= Len(s)
    /\ s[e] = "\""
    /\ LET la == SpaceRunEnd(s, e + 1)
       IN  la <= Len(s) /\ s[la] \in {",", "}"}

\* the value part '"(.+?)"(?=\s*[,}])' whose opening quote is at index q: the
\* index of the closing quote, or 0
ValueClose(s, q) ==
    IF q > Len(s) \/ s[q] # "\"" THEN 0
    ELSE IF \E e \in (q + 2)..Len(s) :
                ClosesValue(s, e) /\ \A m \in (q + 1)..(e - 1) : s[m] # "\n"
    THEN CHOOSE e \in (q + 2)..Len(s) :
             /\ ClosesValue(s, e) /\ \A m \in (q + 1)..(e - 1) : s[m] # "\n"
             /\ \A f \in (q + 2)..(e - 1) : ~ClosesValue(s, f)
    ELSE 0

\* the key part '("[\w\s]+"\s*:\s*)' at index i: the index of the value's
\* opening quote, or 0
KeyPartEnd(s, i) ==
    IF i > Len(s) \/ s[i] # "\"" THEN 0
    ELSE Only({ IF k = i + 1 \/ k > Len(s) \/ s[k] # "\"" THEN 0
                ELSE Only({ IF c > Len(s) \/ s[c] # ":" THEN 0 ELSE SpaceRunEnd(s, c + 1) :
                            c \in {SpaceRunEnd(s, k + 1)} }) :
                k \in {KeyRunEnd(s, i + 1)} })

RECURSIVE EscapeQuotes(_)
\* value.replace('"', '\\"')
EscapeQuotes(v) ==
    IF v = <<>> THEN <<>>
    ELSE (IF Head(v) = "\"" THEN <<"\\", "\"">> ELSE <<Head(v)>>) \o EscapeQuotes(Tail(v))

RECURSIVE FixQuotesFrom(_, _, _)
\* re.sub(pattern, escape_value_quotes, json_str), resumed at index i
FixQuotesFrom(s, i, acc) ==
    IF i > Len(s) THEN acc
    ELSE Only({ IF q = 0 THEN FixQuotesFrom(s, i + 1, Append(acc, s[i]))
                ELSE Only({ IF e = 0 THEN FixQuotesFrom(s, i + 1, Append(acc, s[i]))
                            ELSE FixQuotesFrom(s, e + 1,
                                     acc \o SubSeq(s, i, q) \o EscapeQuotes(SubSeq(s, q + 1, e - 1))
                                         \o <<"\"">>) :
                            e \in {ValueClose(s, q)} }) :
                q \in {KeyPartEnd(s, i)} })

\* depr lines 38-59; line 52 replaces a straight quote by a straight quote
fix_json_quotes(json_str) == FixQuotesFrom(json_str, 1, <<>>)

RECURSIVE ReplaceFrom(_, _, _, _, _)
\* s.replace(old, new), resumed at index i
ReplaceFrom(s, old, new, i, acc) ==
    IF i > Len(s) THEN acc
    ELSE IF StartsWithAt(s, i, old) THEN ReplaceFrom(s, old, new, i + Len(old), acc \o new)
    ELSE ReplaceFrom(s, old, new, i + 1, Append(acc, s[i]))

\* depr lines 108-109: the two phrases get backslashes before their quotes
ManualEscape(response_text) ==
    Only({ ReplaceFrom(t, Chars("\"Supportive Challenger\""),
                       Chars("\\\"Supportive Challenger\\\""), 1, <<>>) :
           t \in {ReplaceFrom(response_text, Chars("\"White-Collar Mechanic\""),
                              Chars("\\\"White-Collar Mechanic\\\""), 1, <<>>)} })

\* depr lines 85-114: the parse of a reply, after the repairs; ok is FALSE
\* where the second json.loads raises too
DeprParse(reply_text) ==
    Only({ Only({ IF first.ok THEN first
                  ELSE Only({ json_loads(m) : m \in {ManualEscape(t)} }) :
                  first \in {Only({ json_loads(f) : f \in {fix_json_quotes(t)} })} }) :
           t \in {StripMarkdown(reply_text)} })

ApiRunning == [status |-> "running", value |-> JLit("None")]
ApiReturned(v) == [status |-> "returned", value |-> v]
ApiRaised(e) == [status |-> "raised", value |-> JLit(e)]

Unbound == [bound |-> FALSE, text |-> <<>>]
Bound(t) == [bound |-> TRUE, text |-> t]

\* a variant of RetryCount that forgets the increment
RetryCountStuck(r) == r

\* retries += 1 (live line 58; depr lines 113 and 121)
RetryCount(r) == r + 1

\* live lines 57-64: the except block, entered with the local response as it is
LiveHandler(resp, r) ==
    IF ~resp.bound THEN ApiRaised("UnboundLocalError")
    ELSE IF ~json_loads(resp.text).ok THEN ApiRaised("JSONDecodeError")
    ELSE IF RetryCount(r) > max_retries THEN ApiReturned(JLit("None"))
    ELSE ApiRunning

----------------------------------------------------------------------------
(* The make_api_call specification: one call, the service's behaviour on   *)
(* each attempt fixed beforehand                                           *)

MaxTokens == 2

ApiReplies ==
    { Chars("{\"a\": 1}"),
      Chars(" {\"a\": \"b\"}\n"),
      Chars("oops"),
      Fence \o Chars("json\n{\"a\": 1}\n") \o Fence,
      Chars("{\"a\": \"x \"y\" z\"}"),
      <<"{", "LDQ", "a", "RDQ", ":", " ", "1", "}">>,
      Chars("{\"a\": \"x\\\"y\", \"b\": \"White-Collar Mechanic\"}") }

ServiceBehaviours ==
    { [kind |-> "count_tokens_error", text |-> <<>>],
      [kind |-> "create_error", text |-> <<>>] }
    \cup { [kind |-> "reply", text |-> t] : t \in ApiReplies }

InitApi ==
    /\ api_impl \in {"live", "depr"}
    /\ service \in [1..(max_retries + 1) -> ServiceBehaviours]
    /\ attempt = 0
    /\ retries = 0
    /\ response = Unbound
    /\ api_result = ApiRunning
    /\ cost_tracker = NewCostTracker
    /\ CleanIdle /\ PronIdle /\ AnalyzeIdle /\ PipelineIdle

\* one pass of the while loop of src/ai_analysis.py, the except block included
LiveAttempt ==
    /\ api_impl = "live"
    /\ api_result.status = "running"
    /\ retries <= max_retries
    /\ attempt' = attempt + 1
    /\ retries' = IF service[attempt + 1].kind = "reply"
                     /\ json_loads(service[attempt + 1].text).ok
                  THEN retries ELSE RetryCount(retries)
    /\ \E input_tokens, output_tokens \in 1..MaxTokens :
         IF service[attempt + 1].kind = "reply"
         THEN /\ response' = Bound(service[attempt + 1].text)
              /\ cost_tracker' = add_usage(cost_tracker, input_tokens, output_tokens)
              /\ api_result' =
                     Only({ IF p.ok THEN ApiReturned(p.val)
                            ELSE LiveHandler(Bound(service[attempt + 1].text), retries) :
                            p \in {json_loads(service[attempt + 1].text)} })
         ELSE /\ api_result' = LiveHandler(response, retries)
              /\ UNCHANGED <<response, cost_tracker>>
    /\ UNCHANGED <<api_impl, service, cleanVars, pronVars, analyzeVars, pipelineVars>>

\* one pass of the while loop of src/depr/ai_analysis.py, its except blocks included
DeprAttempt ==
    /\ api_impl = "depr"
    /\ api_result.status = "running"
    /\ retries <= max_retries
    /\ attempt' = attempt + 1
    /\ \E input_tokens, output_tokens \in 1..MaxTokens :
         IF service[attempt + 1].kind = "reply"
         THEN \E p \in {DeprParse(service[attempt + 1].text)} :
                /\ response' = Bound(service[attempt + 1].text)
                /\ IF p.ok
                   THEN /\ cost_tracker' = add_usage(cost_tracker, input_tokens, output_tokens)
                        /\ api_result' = ApiReturned(p.val)
                        /\ retries' = retries
                   ELSE /\ cost_tracker' = cost_tracker
                        /\ IF RetryCount(retries) > max_retries
                           THEN retries' = RetryCount(RetryCount(retries)) /\ api_result' = ApiReturned(JLit("None"))
                           ELSE retries' = RetryCount(retries) /\ api_result' = ApiRunning
         ELSE /\ retries' = RetryCount(retries)
              /\ api_result' = IF RetryCount(retries) > max_retries
                               THEN ApiReturned(JLit("None")) ELSE ApiRunning
              /\ UNCHANGED <<response, cost_tracker>>
    /\ UNCHANGED <<api_impl, service, cleanVars, pronVars, analyzeVars, pipelineVars>>

NextApi == LiveAttempt \/ DeprAttempt

SpecApi == InitApi /\ [][NextApi]_vars

\* an attempt fails: a transport error, or a reply the implementation cannot parse
AttemptFails(impl, b) ==
    \/ b.kind # "reply"
    \/ (impl = "live" /\ ~json_loads(b.text).ok)
    \/ (impl = "depr" /\ ~DeprParse(b.text).ok)

AnswersValidJson(b) == b.kind = "reply" /\ json_loads(b.text).ok

\* C1: when the service fails on the first two attempts and answers with
\* valid JSON on the third, make_api_call returns the parsed third reply.
C1_FailTwiceThenSucceed ==
    ( /\ api_result.status # "running"
      /\ AttemptFails(api_impl, service[1])
      /\ AttemptFails(api_impl, service[2])
      /\ AnswersValidJson(service[3]) )
    => api_result = ApiReturned(json_loads(service[3].text).val)

\* C2: make_api_call never raises; when every attempt fails, whatever the
\* kind of failure, it returns None.
C2_NeverRaises ==
    /\ api_result.status # "raised"
    /\ ( /\ api_result.status # "running"
         /\ \A k \in 1..(max_retries + 1) : AttemptFails(api_impl, service[k]) )
       => api_result = ApiReturned(JLit("None"))

\* what the service does on an attempt, one behaviour of each kind: the two
\* transport failures, a reply that is JSON, two that are not
RetryBehaviours ==
    { [kind |-> "count_tokens_error", text |-> <<>>],
      [kind |-> "create_error", text |-> <<>>],
      [kind |-> "reply", text |-> Chars("{\"a\": 1}")],
      [kind |-> "reply", text |-> Chars("oops")],
      [kind |-> "reply", text |-> Chars("{\"a\": ")] }

\* one call, the service's behaviour fixed for one attempt more than the
\* call may make
InitApiFair ==
    /\ api_impl \in {"live", "depr"}
    /\ service \in [1..(max_retries + 2) -> RetryBehaviours]
    /\ attempt = 0
    /\ retries = 0
    /\ response = Unbound
    /\ api_result = ApiRunning
    /\ cost_tracker = NewCostTracker
    /\ CleanIdle /\ PronIdle /\ AnalyzeIdle /\ PipelineIdle

\* the loop of make_api_call goes on while it can
SpecApiFair == InitApiFair /\ [][NextApi]_vars /\ WF_vars(NextApi)

\* C22: make_api_call ends, returning or raising, after at most
\* max_retries + 1 = 3 attempts, whatever the service does on each attempt.
C22_TerminatesWithinThreeAttempts ==
    /\ [](attempt <= 3 /\ attempt <= max_retries + 1)
    /\ <>(api_result.status # "running")

\* the call has ended after three attempts
C22_Witness == api_result.status = "returned" /\ attempt = 3

\* s with each curly double quote replaced by the straight one
Straightened(s) == [k \in 1..Len(s) |-> IF s[k] \in {"LDQ", "RDQ"} THEN "\"" ELSE s[k]]

\* the reply holds curly double quotes and is valid JSON once they are
\* straight ones
IsCurlyQuotedJson(b) ==
    /\ b.kind = "reply"
    /\ \E k \in 1..Len(b.text) : b.text[k] \in {"LDQ", "RDQ"}
    /\ json_loads(Straightened(Strip(b.text))).ok

\* C25: in the make_api_call that repairs replies, an attempt whose reply is
\* valid JSON but for curly double quotes as string delimiters returns that
\* reply parsed with straight quotes.
C25_SmartQuotesNormalized ==
    ( /\ api_impl = "depr"
      /\ attempt >= 1
      /\ IsCurlyQuotedJson(service[attempt]) )
    => api_result = ApiReturned(json_loads(Straightened(Strip(service[attempt].text))).val)

\* C27: when every attempt made has failed and the call is over, the
\* tracker is what it was before the call.
C27_OnlySuccessCharged ==
    ( /\ api_result.status # "running"
      /\ \A k \in 1..attempt : AttemptFails(api_impl, service[k]) )
    => cost_tracker = NewCostTracker

----------------------------------------------------------------------------
(* BlogAnalyzer.analyze_content: src/ai.py                                 *)

\* self.categories; static.CATEGORIES is configuration, of which the prompt
\* names these members
categories == { Chars("Marketing Automation"), Chars("Email Marketing") }

\* str(e) of an exception: the library's wording, kept as one token
ExcStr(e) == <<e>>

\* str(v) of a decoded value inside an f-string: a str is itself, any other
\* value is kept as one token of its type
PyStr(v) == IF v.t = "string" THEN v.s ELSE <<v.t>>

\* AnalysisResult(success=True, result=result); error stays None, written <<>>
Success(result) == [called |-> TRUE, success |-> TRUE, result |-> result, error |-> <<>>]

\* AnalysisResult(success=False, result=result, error=error)
Failure(result, error) == [called |-> TRUE, success |-> FALSE, result |-> result, error |-> error]

\* lines 251-256: the outer except
AnalysisFailed(e) == Failure(ExcStr(e), Chars("Analysis failed: ") \o ExcStr(e))

\* lines 230-235
MissingCategory(result) == Failure(result, Chars("Response missing 'category' field"))

\* lines 236-241 with the message of lines 242-247 in their place
InvalidCategoryAsInvalidJson(result, category) ==
    Failure(result, Chars("Invalid JSON response format: ") \o ExcStr("JSONDecodeError"))

\* lines 236-241
InvalidCategory(result, category) ==
    Failure(result, Chars("Invalid category returned: ") \o PyStr(category))

\* lines 242-247
InvalidJson(result) ==
    Failure(result, Chars("Invalid JSON response format: ") \o ExcStr("JSONDecodeError"))

\* "category" in result_json: a key of a dict, an item of a list, a substring
\* of a str; the operator is undefined on the other values (TypeError)
ContainsCategory(result_json) ==
    CASE result_json.t = "object" -> HasKey(result_json, Chars("category"))
      [] result_json.t = "array" ->
            \E k \in 1..Len(result_json.items) :
                result_json.items[k] = JStr(Chars("category"))
      [] result_json.t = "string" ->
            \E k \in 1..Len(result_json.s) :
                StartsWithAt(result_json.s, k, Chars("category"))

\* lines 228-241: the checks on the decoded reply
ValidateCategory(result, result_json) ==
    IF result_json.t \notin {"object", "array", "string"} THEN AnalysisFailed("TypeError")
    ELSE IF ~ContainsCategory(result_json) THEN MissingCategory(result)
    ELSE IF result_json.t # "object" THEN AnalysisFailed("TypeError")
    ELSE Only({ IF category.t = "string" /\ category.s \in categories
                THEN Success(result)
                ELSE InvalidCategory(result, category) :
                category \in {GetKey(result_json, Chars("category"))} })

\* lines 197-256; client is what self.client.messages.create does
analyze_content(client, type) ==
    IF client.kind # "reply" THEN AnalysisFailed("APIError")
    ELSE Only({ IF type # "categorize" THEN Success(result)
                ELSE Only({ IF ~p.ok THEN InvalidJson(result)
                            ELSE Only({ ValidateCategory(result, result_json) :
                                        result_json \in {p.val} }) :
                            p \in {json_loads(result)} }) :
                result \in {Strip(client.text)} })

----------------------------------------------------------------------------
(* The analyze_content specification: one call on one reply                *)

AnalysisTypes ==
    { "categorize", "brand_alignment", "use_case", "use_case_type_2",
      "use_case_multi", "additional_use_cases" }

AnalyzeReplies ==
    { Chars("{\"category\": \"Email Marketing\"}"),
      Chars(" {\"category\": \"Marketing Automation\"}\n"),
      Chars("{\"category\": \"Not A Real Category\"}"),
      Chars("{\"category\": \"email marketing\"}"),
      Chars("{\"category\": 1}"),
      Chars("{\"category\": null}"),
      Chars("{\"category\": [\"Email Marketing\"]}"),
      Chars("{\"category\": \"Email Marketing\", \"category\": \"Bad\"}"),
      Chars("{\"topic\": \"Email Marketing\"}"),
      Chars("[\"category\"]"),
      Chars("\"my category\""),
      Chars("[]"),
      Chars("2"),
      Chars("null"),
      Chars("oops"),
      Chars(""),
      Chars("{\"category\": \"Email Marketing\""),
      Chars("Category: Email Marketing"),
      Fence \o Chars("json\n{\"category\": \"Email Marketing\"}\n") \o Fence }

ClientBehaviours ==
    { [kind |-> "create_error", text |-> <<>>] }
    \cup { [kind |-> "reply", text |-> t] : t \in AnalyzeReplies }

InitAnalyze ==
    /\ reply \in ClientBehaviours
    /\ analysis_type \in AnalysisTypes
    /\ analysis = [called |-> FALSE]
    /\ CleanIdle /\ PronIdle /\ ApiIdle /\ PipelineIdle

CallAnalyzeContent ==
    /\ ~analysis.called
    /\ analysis' = analyze_content(reply, analysis_type)
    /\ UNCHANGED <<reply, analysis_type, cleanVars, pronVars, apiVars, pipelineVars>>

NextAnalyze == CallAnalyzeContent

SpecAnalyze == InitAnalyze /\ [][NextAnalyze]_vars

\* the reply is valid JSON, an object whose category value is not a member of
\* the category list
IsInvalidCategoryReply(b) ==
    /\ b.kind = "reply"
    /\ \E p \in {json_loads(Strip(b.text))} :
         /\ p.ok
         /\ p.val.t = "object"
         /\ HasKey(p.val, Chars("category"))
         /\ \A c \in categories : GetKey(p.val, Chars("category")) # JStr(c)

\* the reply is not valid JSON
IsNotJsonReply(b) == b.kind = "reply" /\ ~json_loads(Strip(b.text)).ok

\* C3: on the categorize axis a valid-JSON reply whose category is not in the
\* list gives success=False with the invalid-category message, a reply that
\* is not JSON gives success=False with the invalid-JSON message, and the
\* first message differs from the message of every reply that is not JSON.
C3_DistinctCategorizeErrors ==
    (analysis.called /\ analysis_type = "categorize") =>
        /\ IsInvalidCategoryReply(reply) =>
              /\ ~analysis.success
              /\ StartsWithAt(analysis.error, 1, Chars("Invalid category returned: "))
              /\ \A b \in ClientBehaviours :
                    IsNotJsonReply(b) => analyze_content(b, "categorize").error # analysis.error
        /\ IsNotJsonReply(reply) =>
              /\ ~analysis.success
              /\ StartsWithAt(analysis.error, 1, Chars("Invalid JSON response format: "))

\* the call on the categorize axis has answered a reply whose category is
\* "Not A Real Category"
C3_Witness ==
    /\ analysis.called
    /\ analysis_type = "categorize"
    /\ reply.kind = "reply"
    /\ reply.text = Chars("{\"category\": \"Not A Real Category\"}")
    /\ IsInvalidCategoryReply(reply)
    /\ ~analysis.success

----------------------------------------------------------------------------
(* The CostTracker specification: add_usage and reset, in any order        *)

MaxTrackerCalls == 3

\* token counts handed to add_usage
TokenAmounts == {0, 1, MaxTokens, 1000000}

\* a dollar amount in the unit of cost_tracker.cost, the millionth of a dollar
Dollars(n) == n * 1000000

\* a variant of reset that leaves the tracker as it is
reset_keeps(tracker) == tracker

\* CostTracker.reset
reset(tracker) == NewCostTracker

InitCost ==
    /\ cost_tracker = NewCostTracker
    /\ tracker_call = [op |-> "__init__", n |-> 0]
    /\ api_impl = "none"
    /\ service = <<>>
    /\ attempt = 0
    /\ retries = 0
    /\ response = [bound |-> FALSE, text |-> <<>>]
    /\ api_result = [status |-> "not called"]
    /\ CleanIdle /\ PronIdle /\ AnalyzeIdle /\ BatchIdle /\ StoreIdle /\ ProcessIdle /\ OtherIdle

CallAddUsage ==
    /\ tracker_call.n < MaxTrackerCalls
    /\ \E input_tokens, output_tokens \in TokenAmounts :
         /\ cost_tracker' = add_usage(cost_tracker, input_tokens, output_tokens)
         /\ tracker_call' = [op |-> "add_usage", n |-> tracker_call.n + 1,
                             input_tokens |-> input_tokens,
                             output_tokens |-> output_tokens,
                             before |-> cost_tracker]
    /\ UNCHANGED <<api_impl, service, attempt, retries, response, api_result,
                   cleanVars, pronVars, analyzeVars, batchVars, storeVars, processVars, otherVars>>

CallReset ==
    /\ tracker_call.n < MaxTrackerCalls
    /\ cost_tracker' = reset(cost_tracker)
    /\ tracker_call' = [op |-> "reset", n |-> tracker_call.n + 1, before |-> cost_tracker]
    /\ UNCHANGED <<api_impl, service, attempt, retries, response, api_result,
                   cleanVars, pronVars, analyzeVars, batchVars, storeVars, processVars, otherVars>>

NextCost == CallAddUsage \/ CallReset

SpecCost == InitCost /\ [][NextCost]_vars

\* C11: add_usage(i, o) adds exactly i*3.00/1,000,000 + o*15.00/1,000,000 to
\* cost, i to input_tokens and o to output_tokens (18.00 for a million of
\* each), and reset() leaves cost and both token counts at zero.
C11_AddUsageAndReset ==
    /\ tracker_call.op = "add_usage" =>
          /\ cost_tracker.cost = tracker_call.before.cost
                 + tracker_call.input_tokens * 3 + tracker_call.output_tokens * 15
          /\ cost_tracker.input_tokens =
                 tracker_call.before.input_tokens + tracker_call.input_tokens
          /\ cost_tracker.output_tokens =
                 tracker_call.before.output_tokens + tracker_call.output_tokens
          /\ (tracker_call.input_tokens = 1000000 /\ tracker_call.output_tokens = 1000000)
                 => cost_tracker.cost = tracker_call.before.cost + Dollars(18)
    /\ tracker_call.op = "reset" =>
          /\ cost_tracker.cost = 0
          /\ cost_tracker.input_tokens = 0
          /\ cost_tracker.output_tokens = 0

\* reset() has been called on a tracker that held add_usage(1000000, 1000000)
C11_Witness ==
    /\ tracker_call.op = "reset"
    /\ tracker_call.before.cost = Dollars(18)
    /\ tracker_call.before.input_tokens = 1000000
    /\ tracker_call.before.output_tokens = 1000000
    /\ cost_tracker.cost = 0

----------------------------------------------------------------------------
(* The batch loops: create_blog_audit_df (src/make_analysis.py) and        *)
(* BatchProcessor.process_batch (src/modular/batch_processor.py)           *)

\* the analysis calls of one article, in the order both loops make them
Axes == <<"categorization", "seo", "tone", "quality">>

\* what the service does on every attempt of one make_api_call
ServiceOutcomes == {"ok", "bad_reply", "transport_error"}

\* make_api_call as its caller sees it: what it hands back, and whether
\* add_usage ran. src/ai_analysis.py charges before json.loads and leaves
\* through its except block; src/depr/ai_analysis.py charges after a
\* successful parse and returns None after its retries.
ApiCallSummary(api, outcome) ==
    IF outcome = "ok" THEN [result |-> "dict", charged |-> TRUE]
    ELSE IF api = "live" THEN [result |-> "raised", charged |-> outcome = "bad_reply"]
    ELSE [result |-> "None", charged |-> FALSE]

\* analyze_content_categorization and analyze_tone_voice return
\* make_api_call(prompt); analyze_seo and analyze_quality_brand_fit return
\* their default_response on None or on an exception
AnalyzeResult(axis, result) ==
    IF axis \in {"seo", "quality"} /\ result # "dict" THEN "default" ELSE result

\* one analyze_* call of an article: the result and the tracker after it
AnalyzeCall(api, article, axis, tracker) ==
    [ result |-> AnalyzeResult(axis, ApiCallSummary(api, article.calls[axis]).result),
      tracker |-> IF ApiCallSummary(api, article.calls[axis]).charged
                  THEN add_usage(tracker, article.input_tokens, article.output_tokens)
                  ELSE tracker ]

\* f"{cost:.4f}": the cost in ten-thousandths of a dollar, halves to even
FormatCost(cost) ==
    IF cost % 100 > 50 \/ (cost % 100 = 50 /\ (cost \div 100) % 2 = 1)
    THEN cost \div 100 + 1
    ELSE cost \div 100

Aborted(tracker) == [ok |-> FALSE, tracker |-> tracker]
Built(k, tracker) ==
    [ok |-> TRUE, tracker |-> tracker,
     record |-> [article |-> k, api_cost |-> FormatCost(tracker.cost)]]

\* make_analysis.py lines 367-598: the loop body for the article at position
\* k, up to all_articles.append; not ok where an exception reaches line 600
AuditArticle(article, k, tracker) ==
    LET c1 == AnalyzeCall("live", article, "categorization", reset(tracker))
        c2 == AnalyzeCall("live", article, "seo", c1.tracker)
        c3 == AnalyzeCall("live", article, "tone", c2.tracker)
        c4 == AnalyzeCall("live", article, "quality", c3.tracker)
        c5 == AnalyzeCall("live", article, "quality", c4.tracker)
    IN  IF c1.result = "raised" THEN Aborted(c1.tracker)
        ELSE IF c3.result = "raised" THEN Aborted(c3.tracker)
        ELSE IF c1.result # "dict" THEN Aborted(c5.tracker)
        ELSE Built(k, c5.tracker)

\* batch_processor.py lines 85-142: _process_single_article for the article
\* at position k; not ok where it raises
ProcessArticle(article, k, tracker) ==
    LET c1 == AnalyzeCall("depr", article, "categorization", reset(tracker))
        c2 == AnalyzeCall("depr", article, "seo", c1.tracker)
        c3 == AnalyzeCall("depr", article, "tone", c2.tracker)
        c4 == AnalyzeCall("depr", article, "quality", c3.tracker)
    IN  IF c1.result = "raised" THEN Aborted(c1.tracker)
        ELSE IF c3.result = "raised" THEN Aborted(c3.tracker)
        ELSE IF c4.result = "default" THEN Aborted(c4.tracker)
        ELSE Built(k, c4.tracker)

\* make_analysis.py lines 468-518: the analyze_* calls of the loop body, in
\* order (lines 469, 474, 478, 482 and, inside the try of line 517, 518); an
\* exception out of analyze_content_categorization or analyze_tone_voice
\* leaves for line 600
AuditAxisCalls(article) ==
    IF ApiCallSummary("live", article.calls["categorization"]).result = "raised"
    THEN <<"categorization">>
    ELSE IF ApiCallSummary("live", article.calls["tone"]).result = "raised"
    THEN <<"categorization", "seo", "tone">>
    ELSE <<"categorization", "seo", "tone", "quality", "quality">>

\* batch_processor.py lines 112-116: the analyze_* calls of
\* _process_single_article, in order; none of them raises
ProcessAxisCalls(article) == <<"categorization", "seo", "tone", "quality">>

BatchRunning == [status |-> "running", none |-> FALSE, rows |-> <<>>]
BatchReturned(rows) == [status |-> "returned", none |-> FALSE, rows |-> rows]
BatchReturnedNone == [status |-> "returned", none |-> TRUE, rows |-> <<>>]
BatchRaised == [status |-> "raised", none |-> FALSE, rows |-> <<>>]

----------------------------------------------------------------------------
(* The batch specification *)

MaxBatch == 2

\* token counts of the calls of one article
ArticleTokens == { [input_tokens |-> 1000, output_tokens |-> 100],
                   [input_tokens |-> 45, output_tokens |-> 1] }

ArticleCalls ==
    [{"categorization", "seo", "tone", "quality"} -> {"ok", "bad_reply"}]
    \cup { [a \in {"categorization", "seo", "tone", "quality"} |->
               IF a = x THEN "transport_error" ELSE "ok"] :
           x \in {"categorization", "seo", "tone", "quality"} }

Articles ==
    { [calls |-> c, input_tokens |-> 1000, output_tokens |-> 100] : c \in ArticleCalls }
    \cup { [calls |-> [a \in {"categorization", "seo", "tone", "quality"} |-> "ok"],
            input_tokens |-> 45, output_tokens |-> 1] }

Batches == UNION { [1..n -> Articles] : n \in 1..MaxBatch }

InitBatch ==
    /\ batch_impl \in {"make_analysis", "modular"}
    /\ names_bound \in (IF batch_impl = "make_analysis" THEN BOOLEAN ELSE {TRUE})
    /\ batch \in Batches
    /\ batch_idx = 0
    /\ all_articles = <<>>
    /\ axis_calls = <<>>
    /\ batch_result = BatchRunning
    /\ cost_tracker \in {NewCostTracker, add_usage(NewCostTracker, 1000, 100)}
    /\ api_impl = "none"
    /\ service = <<>>
    /\ attempt = 0
    /\ retries = 0
    /\ response = [bound |-> FALSE, text |-> <<>>]
    /\ api_result = [status |-> "not called"]
    /\ CleanIdle /\ PronIdle /\ AnalyzeIdle /\ CostIdle /\ StoreIdle /\ ProcessIdle /\ OtherIdle

\* create_blog_audit_df(articles_data): the call ends within the first pass
\* of its loop, at line 367 (NameError), at the break of line 603, or at the
\* return of line 609
CreateBlogAuditDf ==
    /\ batch_impl = "make_analysis"
    /\ batch_result.status = "running"
    /\ batch_idx' = 1
    /\ IF ~names_bound
       THEN /\ batch_result' = BatchRaised
            /\ UNCHANGED <<cost_tracker, all_articles, axis_calls>>
       ELSE \E run \in {AuditArticle(batch[1], 1, cost_tracker)} :
              /\ cost_tracker' = run.tracker
              /\ axis_calls' = AuditAxisCalls(batch[1])
              /\ IF run.ok
                 THEN /\ all_articles' = <<run.record>>
                      /\ batch_result' = BatchReturned(<<run.record>>)
                 ELSE /\ all_articles' = <<>>
                      /\ batch_result' = BatchReturnedNone
    /\ UNCHANGED <<batch_impl, names_bound, batch, api_impl, service, attempt, retries,
                   response, api_result, cleanVars, pronVars, analyzeVars, costVars, storeVars, processVars, otherVars>>

\* one pass of the loop of process_batch (lines 59-68)
ProcessSingleArticle ==
    /\ batch_impl = "modular"
    /\ batch_result.status = "running"
    /\ batch_idx < Len(batch)
    /\ batch_idx' = batch_idx + 1
    /\ \E run \in {ProcessArticle(batch[batch_idx + 1], batch_idx + 1, cost_tracker)} :
         /\ cost_tracker' = run.tracker
         /\ axis_calls' = ProcessAxisCalls(batch[batch_idx + 1])
         /\ IF run.ok
            THEN /\ all_articles' = Append(all_articles, run.record)
                 /\ batch_result' = batch_result
            ELSE /\ all_articles' = all_articles
                 /\ batch_result' = IF all_articles = <<>> THEN BatchReturnedNone
                                    ELSE BatchReturned(<<>>)
    /\ UNCHANGED <<batch_impl, names_bound, batch, api_impl, service, attempt, retries,
                   response, api_result, cleanVars, pronVars, analyzeVars, costVars, storeVars, processVars, otherVars>>

\* process_batch after its loop (lines 70-79): the rows go to the Excel file
WriteBatch ==
    /\ batch_impl = "modular"
    /\ batch_result.status = "running"
    /\ batch_idx = Len(batch)
    /\ batch_result' = BatchReturned(all_articles)
    /\ UNCHANGED <<batch_impl, names_bound, batch, batch_idx, all_articles, axis_calls, apiVars,
                   cleanVars, pronVars, analyzeVars, costVars, storeVars, processVars, otherVars>>

NextBatch == CreateBlogAuditDf \/ ProcessSingleArticle \/ WriteBatch

SpecBatch == InitBatch /\ [][NextBatch]_vars

\* the service answered the call: a reply arrived, parseable or not
Answered(outcome) == outcome \in {"ok", "bad_reply"}

\* the number of make_api_call calls of a finished article for which the
\* tracker was charged
ChargedCalls(impl, article) ==
    IF impl = "make_analysis"
    THEN Cardinality({a \in DOMAIN article.calls : Answered(article.calls[a])})
         + (IF Answered(article.calls["quality"]) THEN 1 ELSE 0)
    ELSE Cardinality({a \in DOMAIN article.calls : article.calls[a] = "ok"})

\* the cost of the calls made while the article was processed
ArticleCost(impl, article) ==
    ChargedCalls(impl, article) * (article.input_tokens * 3 + article.output_tokens * 15)

AllOk(article) == \A a \in DOMAIN article.calls : article.calls[a] = "ok"

\* C12: the API Cost of every record is the cost of exactly the calls made
\* while its article was processed: nothing carried over from the article
\* before or from an earlier batch, nothing cleared in between.
C12_CostPerArticle ==
    batch_result.status \in {"running", "returned"} =>
        \A k \in 1..Len(all_articles) :
            all_articles[k].api_cost =
                FormatCost(ArticleCost(batch_impl, batch[all_articles[k].article]))

\* the second article of a batch has its record, after a first article that
\* was charged too
C12_Witness ==
    /\ Len(all_articles) = 2
    /\ all_articles[1].api_cost > 0
    /\ all_articles[2].api_cost > 0
    /\ all_articles[2].article = 2

\* C13: when an axis call of an article fails, the batch still goes on to
\* its next article: the call ends only after every article has had its pass.
C13_FailedAxisDoesNotAbort ==
    ( /\ batch_result.status # "running"
      /\ names_bound
      /\ \E k \in 1..batch_idx : ~AllOk(batch[k]) )
    => (batch_result.status = "returned" /\ batch_idx = Len(batch))

C29_ResumeLosesNothing ==
    ( /\ batch_impl = "modular"
      /\ batch_result.status = "returned"
      /\ ~batch_result.none )
    => \A k \in 1..all_articles[Len(all_articles)].article :
          \E r \in 1..Len(batch_result.rows) : batch_result.rows[r].article = k

----------------------------------------------------------------------------
(* Further properties of analyze_content *)

\* C15: whenever analyze_content returns success=True, on any axis, its
\* result is text that parses as a JSON object.
C15_SuccessIsJsonObject ==
    (analysis.called /\ analysis.success) =>
        \E p \in {json_loads(analysis.result)} : p.ok /\ p.val.t = "object"

----------------------------------------------------------------------------
(* The persisted store: load_processed_data and save_processed_data,       *)
(* src/clean_analysis.py                                                   *)

\* the attempts of save_processed_data (its local max_retries)
save_max_retries == 3

\* a file: absent, or its content by kind. "object" is a JSON object, the
\* mapping whose keys are ids; "non_object" is any other JSON value;
\* "corrupt_text" is text that is not JSON; "corrupt_bytes" is bytes that
\* are not text in the encoding open() reads with
Absent == [exists |-> FALSE, kind |-> "none", ids |-> {}]
File(kind, ids) == [exists |-> TRUE, kind |-> kind, ids |-> ids]

\* os.rename(processed_file, backup_file): the backup of that stamp is
\* created or replaced
Rename(bk, stamp, file) == [t \in DOMAIN bk |-> IF t = stamp THEN file ELSE bk[t]]

Loaded(value, st, bk) == [raised |-> FALSE, value |-> value, store |-> st, backups |-> bk]
LoadRaised(st, bk) == [raised |-> TRUE, value |-> Absent, store |-> st, backups |-> bk]

\* lines 19-32; value is what json.load returned, or the empty mapping
load_processed_data(st, bk, stamp) ==
    IF ~st.exists THEN Loaded(File("object", {}), st, bk)
    ELSE IF st.kind = "corrupt_bytes" THEN LoadRaised(st, bk)
    ELSE IF st.kind = "corrupt_text"
    THEN Loaded(File("object", {}), Absent, Rename(bk, stamp, st))
    ELSE Loaded(st, st, bk)

\* a variant of Saved that reports True whatever happened
SavedAlwaysTrue(result, n, st, bk) ==
    [result |-> TRUE, attempts |-> n, store |-> st, backups |-> bk]

\* what save_processed_data returns after n passes, and the files it leaves
Saved(result, n, st, bk) == [result |-> result, attempts |-> n, store |-> st, backups |-> bk]

RECURSIVE SaveFrom(_, _, _, _, _, _)
\* lines 41-60: the passes of the for loop from pass n on; writes[k] is what
\* open(..., 'w') and json.dump do on the pass k: "ok", "open_error" (the
\* file is not touched) or "write_error" (the file is left cut short)
SaveFrom(article_id, writes, n, st, bk, stamp) ==
    LET l == load_processed_data(st, bk, stamp)
        usable == ~l.raised /\ l.value.kind = "object"
        after == IF ~usable \/ writes[n + 1] = "open_error" THEN l.store
                 ELSE IF writes[n + 1] = "write_error" THEN File("corrupt_text", {})
                 ELSE File("object", l.value.ids \cup {article_id})
    IN  IF usable /\ writes[n + 1] = "ok"
        THEN Saved(TRUE, n + 1, after, l.backups)
        ELSE IF n < save_max_retries - 1
        THEN SaveFrom(article_id, writes, n + 1, after, l.backups, stamp)
        ELSE Saved(FALSE, n + 1, after, l.backups)

\* lines 35-60
save_processed_data(article_id, writes, st, bk, stamp) ==
    SaveFrom(article_id, writes, 0, st, bk, stamp)

----------------------------------------------------------------------------
(* The store specification: one call on a store in any condition          *)

MaxClock == 1

WriteOutcomes == {"ok", "open_error", "write_error"}

WriteScripts == [1..save_max_retries -> WriteOutcomes]

StoredFiles ==
    { Absent, File("object", {}), File("object", {"id1"}), File("object", {"id1", "id2"}),
      File("non_object", {}), File("corrupt_text", {}), File("corrupt_bytes", {}) }

InitStore ==
    /\ store \in StoredFiles
    /\ backups \in [0..MaxClock -> {Absent, File("corrupt_text", {})}]
    /\ store_call = [op |-> "none"]
    /\ CleanIdle /\ PronIdle /\ ApiIdle /\ AnalyzeIdle /\ CostIdle /\ BatchIdle /\ ProcessIdle /\ OtherIdle

CallLoadProcessedData ==
    /\ store_call.op = "none"
    /\ \E stamp \in 0..MaxClock :
         \E l \in {load_processed_data(store, backups, stamp)} :
           /\ store' = l.store
           /\ backups' = l.backups
           /\ store_call' = [op |-> "load", raised |-> l.raised, value |-> l.value,
                             stamp |-> stamp, before |-> store]
    /\ UNCHANGED <<cleanVars, pronVars, apiVars, analyzeVars, costVars, batchVars, processVars, otherVars>>

CallSaveProcessedData ==
    /\ store_call.op = "none"
    /\ \E stamp \in 0..MaxClock, writes \in WriteScripts, article_id \in {"id1", "id3"} :
         \E r \in {save_processed_data(article_id, writes, store, backups, stamp)} :
           /\ store' = r.store
           /\ backups' = r.backups
           /\ store_call' = [op |-> "save", result |-> r.result, attempts |-> r.attempts,
                             article_id |-> article_id, writes |-> writes,
                             stamp |-> stamp, before |-> store]
    /\ UNCHANGED <<cleanVars, pronVars, apiVars, analyzeVars, costVars, batchVars, processVars, otherVars>>

NextStore == CallLoadProcessedData \/ CallSaveProcessedData

SpecStore == InitStore /\ [][NextStore]_vars

\* the file exists and does not parse as JSON
Corrupted(file) == file.exists /\ file.kind \in {"corrupt_text", "corrupt_bytes"}

\* C17: load_processed_data on a store that does not parse as JSON renames
\* it to a timestamped backup holding the original bytes, returns an empty
\* mapping without raising, and leaves no file at the original path.
C17_LoadToleratesCorruption ==
    (store_call.op = "load" /\ Corrupted(store_call.before)) =>
        /\ ~store_call.raised
        /\ store_call.value = File("object", {})
        /\ backups[store_call.stamp] = store_call.before
        /\ ~store.exists

\* C28: save_processed_data never loses other articles' data: whether it
\* returns True or False, and also when a write fails after the file was
\* opened for writing and is retried, every record the file held under
\* another id before the call is in the file after the call.
C28_SaveKeepsOtherRecords ==
    ( /\ store_call.op = "save"
      /\ store_call.before.exists
      /\ store_call.before.kind = "object" )
    => \A id \in store_call.before.ids \ {store_call.article_id} :
          /\ store.exists
          /\ store.kind = "object"
          /\ id \in store.ids

----------------------------------------------------------------------------
(* process_all_content, src/clean_analysis.py, and BlogAnalyzer.__init__,  *)
(* src/ai.py                                                               *)

\* a variant of BlogAnalyzerInit that accepts a missing key
BlogAnalyzerInitLenient(key_set) == "constructed"

\* BlogAnalyzer.__init__ (through get_analysis_manager and AnalysisManager)
BlogAnalyzerInit(key_set) == IF key_set THEN "constructed" ELSE "ValueError"

\* the stamps datetime.now() can give: not before the stamp of a backup
\* that exists
Stamps(bk) == {t \in DOMAIN bk : \A u \in DOMAIN bk : u > t => ~bk[u].exists}

----------------------------------------------------------------------------
(* The process_all_content specification *)

MaxArticles == 2

\* what the write of each pass of one save_processed_data call does
ProcessWriteScripts ==
    { [k \in 1..save_max_retries |-> "ok"],
      [k \in 1..save_max_retries |-> IF k = 1 THEN "open_error" ELSE "ok"],
      [k \in 1..save_max_retries |-> IF k < save_max_retries THEN "write_error" ELSE "ok"],
      [k \in 1..save_max_retries |-> "open_error"],
      [k \in 1..save_max_retries |-> "write_error"] }

\* an article: whether analyze_article returns or raises, after how many
\* requests, and what the writes of its save do
ProcessArticles ==
    { [analysis |-> "returns", requests |-> 4, writes |-> w] : w \in ProcessWriteScripts }
    \cup { [analysis |-> "raises", requests |-> 2,
            writes |-> [k \in 1..save_max_retries |-> "ok"]] }

InitProcess ==
    /\ api_key_set \in BOOLEAN
    /\ proc_articles \in UNION { [1..n -> ProcessArticles] : n \in 1..MaxArticles }
    /\ proc_idx = 0
    /\ proc_status = "not started"
    /\ requests_sent = 0
    /\ save_log = <<>>
    /\ store \in {Absent, File("object", {}), File("corrupt_text", {}), File("corrupt_bytes", {})}
    /\ backups = [t \in 0..MaxClock |-> Absent]
    /\ store_call = [op |-> "none"]
    /\ CleanIdle /\ PronIdle /\ ApiIdle /\ AnalyzeIdle /\ CostIdle /\ BatchIdle /\ OtherIdle

\* lines 189-199: the output directory, the input file, the analysis manager
StartProcess ==
    /\ proc_status = "not started"
    /\ proc_status' = IF BlogAnalyzerInit(api_key_set) = "constructed"
                      THEN "running" ELSE "raised"
    /\ UNCHANGED <<api_key_set, proc_articles, proc_idx, requests_sent, save_log,
                   cleanVars, pronVars, apiVars, analyzeVars, costVars, batchVars, storeVars, otherVars>>

\* lines 210-228: one pass of the loop over the articles
ProcessNextArticle ==
    /\ proc_status = "running"
    /\ proc_idx < Len(proc_articles)
    /\ proc_idx' = proc_idx + 1
    /\ requests_sent' = requests_sent + proc_articles[proc_idx + 1].requests
    /\ IF proc_articles[proc_idx + 1].analysis = "raises"
       THEN UNCHANGED <<store, backups, save_log>>
       ELSE \E stamp \in Stamps(backups) :
              \E r \in {save_processed_data(proc_idx + 1, proc_articles[proc_idx + 1].writes,
                                            store, backups, stamp)} :
                /\ store' = r.store
                /\ backups' = r.backups
                /\ save_log' = Append(save_log,
                                      [article |-> proc_idx + 1, result |-> r.result,
                                       attempts |-> r.attempts,
                                       stored |-> r.store.exists /\ r.store.kind = "object"
                                                  /\ (proc_idx + 1) \in r.store.ids])
    /\ UNCHANGED <<api_key_set, proc_articles, proc_status, store_call,
                   cleanVars, pronVars, apiVars, analyzeVars, costVars, batchVars, otherVars>>

\* line 230: the loops are over
FinishProcess ==
    /\ proc_status = "running"
    /\ proc_idx = Len(proc_articles)
    /\ proc_status' = "done"
    /\ UNCHANGED <<api_key_set, proc_articles, proc_idx, requests_sent, save_log,
                   cleanVars, pronVars, apiVars, analyzeVars, costVars, batchVars, storeVars, otherVars>>

NextProcess == StartProcess \/ ProcessNextArticle \/ FinishProcess

SpecProcess == InitProcess /\ [][NextProcess]_vars

\* C16: without ANTHROPIC_API_KEY the construction of the analyzer raises
\* and process_all_content stops there: no article is gone through, no
\* request is sent, the store is not written.
C16_MissingKeyIsFatal ==
    /\ [](~api_key_set =>
            /\ proc_status \in {"not started", "raised"}
            /\ proc_idx = 0
            /\ requests_sent = 0
            /\ save_log = <<>>)
    /\ [][~api_key_set => (store' = store /\ backups' = backups)]_vars

\* process_all_content has raised for lack of the key
C16_Witness == ~api_key_set /\ proc_status = "raised" /\ Len(proc_articles) = MaxArticles

\* C18: save_processed_data makes at most 3 attempts; when it returns False
\* all 3 have failed and the record is not in the store; when it returns True
\* the write of its last attempt succeeded and the record is in the store;
\* either way process_all_content goes through every article.
C18_BoundedSaveAttempts ==
    /\ \A k \in 1..Len(save_log) :
          /\ save_log[k].attempts \in 1..3
          /\ ~save_log[k].result =>
                /\ save_log[k].attempts = 3
                /\ ~save_log[k].stored
          /\ save_log[k].result =>
                /\ proc_articles[save_log[k].article].writes[save_log[k].attempts] = "ok"
                /\ save_log[k].stored
    /\ proc_status = "done" =>
          /\ proc_idx = Len(proc_articles)
          /\ \A a \in 1..Len(proc_articles) :
                proc_articles[a].analysis = "returns" =>
                    \E k \in 1..Len(save_log) : save_log[k].article = a

\* a save has failed three times on the first article and the second article
\* has been saved all the same
C18_Witness ==
    /\ proc_status = "done"
    /\ Len(save_log) = 2
    /\ ~save_log[1].result /\ save_log[1].attempts = 3
    /\ save_log[2].result /\ save_log[2].article = 2

----------------------------------------------------------------------------
(* analyze_article: src/clean_analysis.py                                  *)

\* the axes in the order analyze_article asks for them
ArticleAxes == <<"categorize", "use_case", "use_case_type_2", "use_case_multi">>

\* useCaseCats['useCases'] of the static module: configuration, the use
\* cases the prompt lists
useCases == { Chars("Lead Nurturing") }

\* a Python str and None as values of the record
PyText(str) == JStr(str)
PyNone == JLit("null")

\* data[key] for a decoded reply: KeyError on an object without the key,
\* TypeError on a value that is not an object
Subscript(data, key) ==
    IF data.t # "object" THEN [ok |-> FALSE, exc |-> "TypeError"]
    ELSE IF ~HasKey(data, Chars(key)) THEN [ok |-> FALSE, exc |-> "KeyError"]
    ELSE [ok |-> TRUE, val |-> GetKey(data, Chars(key))]

\* use_case_info.get(key) for a use case of useCaseCats
UseCaseInfo(use_case, key) == [t |-> "config", of |-> use_case.s, key |-> key]

\* how far analyze_article has got: the record so far, the axes invoked
ArticleRunning(fields, invoked) ==
    [status |-> "running", fields |-> fields, invoked |-> invoked]
ArticleRaised(exc, invoked) ==
    [status |-> "raised", exc |-> exc, invoked |-> invoked]
ArticleReturned(st) ==
    [status |-> "returned", fields |-> st.fields, invoked |-> st.invoked]

\* lines 90-107: the categorize axis
CategorizeAxis(client, st) ==
    Only({ IF ~category_result.success
               THEN ArticleRunning(("ai_category" :> PyText(Chars("uncategorized")))
                                   @@ ("ai_category_reasoning" :> PyNone)
                                   @@ ("ai_category_status" :> PyText(Chars("failed")))
                                   @@ ("category_error" :> PyText(category_result.result))
                                   @@ ("category_error_message" :> PyText(category_result.error))
                                   @@ st.fields, st.invoked + 1)
               ELSE Only({ IF ~p.ok THEN ArticleRaised("JSONDecodeError", st.invoked + 1)
                           ELSE IF ~Subscript(p.val, "category").ok
                           THEN ArticleRaised(Subscript(p.val, "category").exc, st.invoked + 1)
                           ELSE IF ~Subscript(p.val, "reasoning").ok
                           THEN ArticleRaised(Subscript(p.val, "reasoning").exc, st.invoked + 1)
                           ELSE ArticleRunning(("ai_category" :> Subscript(p.val, "category").val)
                                               @@ ("ai_category_reasoning" :> Subscript(p.val, "reasoning").val)
                                               @@ ("ai_category_status" :> PyText(Chars("success")))
                                               @@ st.fields, st.invoked + 1) :
                           p \in {json_loads(category_result.result)} }) :
           category_result \in {analyze_content(client, "categorize")} })

\* lines 109-139: the use_case axis
UseCaseAxis(client, st) ==
    Only({ IF ~analysis_result.success
               THEN ArticleRunning(("use_case" :> PyText(Chars("unclassified")))
                                   @@ ("use_case_reasoning" :> PyNone)
                                   @@ ("analysis_status" :> PyText(Chars("failed")))
                                   @@ ("error" :> PyText(analysis_result.result))
                                   @@ ("error_message" :> PyText(analysis_result.error))
                                   @@ ("getKeepGrow" :> PyText(Chars("unknown")))
                                   @@ ("cmoPriority" :> PyText(Chars("unknown")))
                                   @@ st.fields, st.invoked + 1)
               ELSE Only({ IF ~p.ok THEN ArticleRaised("JSONDecodeError", st.invoked + 1)
                           ELSE IF ~Subscript(p.val, "use case").ok
                           THEN ArticleRaised(Subscript(p.val, "use case").exc, st.invoked + 1)
                           ELSE IF ~Subscript(p.val, "reasoning").ok
                           THEN ArticleRaised(Subscript(p.val, "reasoning").exc, st.invoked + 1)
                           ELSE IF ~Subscript(p.val, "next best use case").ok
                           THEN ArticleRaised(Subscript(p.val, "next best use case").exc, st.invoked + 1)
                           ELSE Only({ IF use_case.t \in {"array", "object"}
                                       THEN ArticleRaised("TypeError", st.invoked + 1)
                                       ELSE ArticleRunning(
                                              ("use_case" :> use_case)
                                              @@ ("use_case_reasoning" :> Subscript(p.val, "reasoning").val)
                                              @@ ("use_case_alt" :> Subscript(p.val, "next best use case").val)
                                              @@ ("analysis_status" :> PyText(Chars("success")))
                                              @@ ("getKeepGrow" :>
                                                    IF use_case.t = "string" /\ use_case.s \in useCases
                                                    THEN UseCaseInfo(use_case, "getKeepGrow")
                                                    ELSE PyText(Chars("unknown")))
                                              @@ ("cmoPriority" :>
                                                    IF use_case.t = "string" /\ use_case.s \in useCases
                                                    THEN UseCaseInfo(use_case, "cmoPriority")
                                                    ELSE PyText(Chars("unknown")))
                                              @@ st.fields, st.invoked + 1) :
                                       use_case \in {Subscript(p.val, "use case").val} }) :
                           p \in {json_loads(analysis_result.result)} }) :
           analysis_result \in {analyze_content(client, "use_case")} })

\* lines 141-163: the use_case_type_2 axis
UseCaseType2Axis(client, st) ==
    Only({ IF ~analysis_result.success
               THEN ArticleRunning(("use_case_type_2" :> PyText(Chars("unclassified")))
                                   @@ ("use_case_reasoning_type_2" :> PyNone)
                                   @@ ("error_2" :> PyText(analysis_result.result))
                                   @@ st.fields, st.invoked + 1)
               ELSE Only({ IF ~p.ok THEN ArticleRaised("JSONDecodeError", st.invoked + 1)
                           ELSE IF ~Subscript(p.val, "use case").ok
                           THEN ArticleRaised(Subscript(p.val, "use case").exc, st.invoked + 1)
                           ELSE IF ~Subscript(p.val, "reasoning").ok
                           THEN ArticleRaised(Subscript(p.val, "reasoning").exc, st.invoked + 1)
                           ELSE ArticleRunning(
                                  ("use_case_type_2" :> Subscript(p.val, "use case").val)
                                  @@ ("use_case_reasoning_type_2" :> Subscript(p.val, "reasoning").val)
                                  @@ st.fields, st.invoked + 1) :
                           p \in {json_loads(analysis_result.result)} }) :
           analysis_result \in {analyze_content(client, "use_case_type_2")} })

\* lines 165-185: the use_case_multi axis
UseCaseMultiAxis(client, st) ==
    Only({ IF ~analysis_result.success
               THEN ArticleRunning(("use_case_multi" :> PyText(Chars("failed")))
                                   @@ ("error_multi" :> PyText(analysis_result.result))
                                   @@ st.fields, st.invoked + 1)
               ELSE Only({ IF ~p.ok THEN ArticleRaised("JSONDecodeError", st.invoked + 1)
                           ELSE IF ~Subscript(p.val, "primary_use_case").ok
                           THEN ArticleRaised(Subscript(p.val, "primary_use_case").exc, st.invoked + 1)
                           ELSE IF ~Subscript(p.val, "additional_use_cases").ok
                           THEN ArticleRaised(Subscript(p.val, "additional_use_cases").exc, st.invoked + 1)
                           ELSE ArticleRunning(
                                  ("use_case_multi_primary" :> Subscript(p.val, "primary_use_case").val)
                                  @@ ("use_case_multi_addl" :> Subscript(p.val, "additional_use_cases").val)
                                  @@ st.fields, st.invoked + 1) :
                           p \in {json_loads(analysis_result.result)} }) :
           analysis_result \in {analyze_content(client, "use_case_multi")} })

\* the next axis, unless an exception has ended the call
AfterCategorize(replies, st) ==
    IF st.status = "raised" THEN st ELSE UseCaseAxis(replies["use_case"], st)
AfterUseCase(replies, st) ==
    IF st.status = "raised" THEN st ELSE UseCaseType2Axis(replies["use_case_type_2"], st)
AfterUseCaseType2(replies, st) ==
    IF st.status = "raised" THEN st ELSE UseCaseMultiAxis(replies["use_case_multi"], st)

\* lines 70-187; url stands for the fields copied from the article
analyze_article(replies) ==
    Only({ IF s4.status = "raised" THEN s4 ELSE ArticleReturned(s4) :
           s4 \in { AfterUseCaseType2(replies, s3) :
                    s3 \in { AfterUseCase(replies, s2) :
                             s2 \in { AfterCategorize(replies, s1) :
                                      s1 \in { CategorizeAxis(replies["categorize"],
                                                 ArticleRunning("url" :> PyText(Chars("u")), 0)) } } } } })

----------------------------------------------------------------------------
(* The analyze_article specification: one article, one reply per axis      *)

\* a reply the prompt of the axis asks for
GoodReply(axis) ==
    CASE axis = "categorize" ->
            Chars("{\"category\": \"Email Marketing\", \"reasoning\": \"r\"}")
      [] axis = "use_case" ->
            Chars("{\"use case\": \"Lead Nurturing\", \"reasoning\": \"r\", \"next best use case\": \"x\"}")
      [] axis = "use_case_type_2" ->
            Chars("{\"use case\": \"Lead Nurturing\", \"reasoning\": \"r\"}")
      [] axis = "use_case_multi" ->
            Chars("{\"primary_use_case\": {\"name\": \"x\"}, \"additional_use_cases\": []}")

\* the replies an axis can get
AxisReplies(axis) ==
    { [kind |-> "create_error", text |-> <<>>],
      [kind |-> "reply", text |-> GoodReply(axis)],
      [kind |-> "reply", text |-> Chars("oops")] }
    \cup (IF axis = "categorize"
          THEN { [kind |-> "reply", text |-> Chars("{\"category\": \"Email Marketing\"}")] }
          ELSE IF axis = "use_case"
          THEN { [kind |-> "reply", text |-> Chars("{\"use case\": \"other\"}")],
                 [kind |-> "reply", text |-> Chars("[]")] }
          ELSE {})

AxisNames == { ArticleAxes[k] : k \in 1..Len(ArticleAxes) }

InitArticle ==
    /\ axis_replies \in { r \in [AxisNames -> UNION { AxisReplies(a) : a \in AxisNames }] :
                            \A a \in AxisNames : r[a] \in AxisReplies(a) }
    /\ article_call = [status |-> "not called"]
    /\ article_saved = "no"
    /\ store \in {Absent, File("object", {})}
    /\ backups = [t \in 0..MaxClock |-> Absent]
    /\ store_call = [op |-> "none"]
    /\ CleanIdle /\ PronIdle /\ ApiIdle /\ AnalyzeIdle /\ CostIdle /\ BatchIdle
    /\ ProcessIdle /\ ReportIdle /\ KeyedIdle

\* process_all_content, lines 211-228, for one article: analyze_article and,
\* when it returns, save_processed_data; the writes of the save succeed
CallAnalyzeArticle ==
    /\ article_call.status = "not called"
    /\ \E r \in {analyze_article(axis_replies)} :
         /\ article_call' = r
         /\ IF r.status = "raised"
            THEN article_saved' = "skipped" /\ UNCHANGED <<store, backups>>
            ELSE \E stamp \in Stamps(backups) :
                   \E sv \in {save_processed_data(1, [k \in 1..save_max_retries |-> "ok"],
                                                  store, backups, stamp)} :
                     /\ article_saved' = IF sv.result THEN "saved" ELSE "save failed"
                     /\ store' = sv.store
                     /\ backups' = sv.backups
    /\ UNCHANGED <<axis_replies, store_call, cleanVars, pronVars, apiVars, analyzeVars,
                   costVars, batchVars, processVars, reportVars, keyedVars>>

NextArticle == CallAnalyzeArticle

SpecArticle == InitArticle /\ [][NextArticle]_vars

\* the reply of the axis is unusable: no reply, or text that is not JSON
Unusable(client) == client.kind # "reply" \/ ~json_loads(Strip(client.text)).ok

\* the fields of the record an axis writes
AxisFields(axis) ==
    CASE axis = "categorize" ->
            {"ai_category", "ai_category_reasoning", "ai_category_status",
             "category_error", "category_error_message"}
      [] axis = "use_case" ->
            {"use_case", "use_case_reasoning", "use_case_alt", "analysis_status",
             "error", "error_message", "getKeepGrow", "cmoPriority"}
      [] axis = "use_case_type_2" ->
            {"use_case_type_2", "use_case_reasoning_type_2", "error_2"}
      [] axis = "use_case_multi" ->
            {"use_case_multi", "use_case_multi_primary", "use_case_multi_addl", "error_multi"}

\* the record restricted to the fields of one axis
FieldsOf(fields, axis) ==
    [f \in DOMAIN fields \cap AxisFields(axis) |-> fields[f]]

\* C14: when the reply of one axis is unusable, analyze_article still
\* invokes all four axes and returns, the record is saved, and the fields of
\* the other axes are those of the call in which that axis got a good reply.
C14_FailuresArePerAxis ==
    article_call.status # "not called" =>
        \A a \in AxisNames :
            Unusable(axis_replies[a]) =>
                /\ article_call.status = "returned"
                /\ article_call.invoked = Len(ArticleAxes)
                /\ article_saved = "saved"
                /\ \E good \in {analyze_article(
                                  [axis_replies EXCEPT
                                     ![a] = [kind |-> "reply", text |-> GoodReply(a)]])} :
                     /\ good.status = "returned"
                     /\ \A b \in AxisNames \ {a} :
                          FieldsOf(article_call.fields, b) = FieldsOf(good.fields, b)

----------------------------------------------------------------------------
(* main, write_headers, append_data, style_excel_file: src/make_analysis.py *)
(* A worksheet is the sequence of its rows; of a row the model keeps the   *)
(* value of its first cell, column A.                                      *)

\* the value of a cell that holds nothing
EmptyCell == ""

headers_row1 == [kind |-> "headers_row1", A |-> "Title"]
headers_row2 == [kind |-> "headers_row2", A |-> "Title"]

\* lines 746-780: ws.append of the two header rows
write_headers(ws) == Append(Append(ws, headers_row1), headers_row2)

\* the row_values of one record: column A is row.get('Title', '')
RowValues(row) == [kind |-> "data", A |-> row.Title]

RECURSIVE AppendFrom(_, _, _)
AppendFrom(ws, data, k) ==
    IF k > Len(data) THEN ws
    ELSE AppendFrom(Append(ws, RowValues(data[k])), data, k + 1)

\* a variant of append_data that leaves out a row the sheet already holds
append_data_dedup(ws, data) ==
    LET RECURSIVE Go(_, _)
        Go(w, k) ==
            IF k > Len(data) THEN w
            ELSE IF \E r \in 1..Len(w) : w[r] = RowValues(data[k]) THEN Go(w, k + 1)
            ELSE Go(Append(w, RowValues(data[k])), k + 1)
    IN  Go(ws, 1)

\* lines 782-843: one ws.append per record, in order
append_data(ws, data) == AppendFrom(ws, data, 1)

\* ws['A<r>'].value
CellA(ws, r) == IF r <= Len(ws) THEN ws[r].A ELSE EmptyCell

\* ws['A3'] = 'Title' (lines 1025-1026)
SetA3(ws) ==
    IF Len(ws) >= 3 THEN [ws EXCEPT ![3].A = "Title"]
    ELSE Append(ws, [kind |-> "data", A |-> "Title"])

\* add_conditional_formatting, lines 54-143: the loops of lines 128 and 137
\* call ws.cell(row=row, column=<a column letter>); the worksheet compares
\* the column with 1 and raises TypeError on a str.  The loops run over the
\* rows from the third on
add_conditional_formatting_raises(ws) == Len(ws) >= 3

\* lines 845-1028: whether style_excel_file raises, and the file it leaves;
\* the styles, widths and formats it sets are not cell values, and nothing
\* is written before wb.save(filename), its last statement
style_excel_file(file) ==
    Only({ IF add_conditional_formatting_raises(ws2)
           THEN [raised |-> TRUE, file |-> file]
           ELSE [raised |-> FALSE,
                 file |-> [exists |-> TRUE,
                           rows |-> IF CellA(ws2, 3) = EmptyCell THEN SetA3(ws2) ELSE ws2]] :
           ws2 \in {IF CellA(file.rows, 1) # "Title" THEN write_headers(file.rows)
                    ELSE file.rows} })

\* how a run of main ends, and the file and the rows it leaves
Exited(code, file, wrote) == [exit |-> code, file |-> file, wrote |-> wrote]

\* lines 1066-1113; data is what create_blog_audit_df did, io what the file
\* system and the workbook library do in this run
main(file, data, io) ==
    IF data.outcome = "raises" THEN Exited("exit 1", file, <<>>)
    ELSE IF data.outcome = "None" THEN Exited("exit 0", file, <<>>)
    ELSE IF ~file.exists
    THEN IF io.save = "error" THEN Exited("raised", file, <<>>)
         ELSE Only({ Exited(IF styled.raised THEN "raised" ELSE "done",
                            styled.file, <<data.rows>>) :
                     styled \in {style_excel_file(
                                    [exists |-> TRUE,
                                     rows |-> append_data(write_headers(<<>>), data.rows)])} })
    ELSE IF io.load = "error" THEN Exited("exit 1", file, <<>>)
    ELSE IF io.save = "error" THEN Exited("exit 1", file, <<>>)
    ELSE Exited("done", [exists |-> TRUE, rows |-> append_data(file.rows, data.rows)],
                 <<data.rows>>)

----------------------------------------------------------------------------
(* The report specification: runs of main on the same output file *)

MaxRuns == 5

\* the titles of the articles: a heading, the empty title of a page without
\* one (scrape_blog.py, line 155)
Titles == {"Post", EmptyCell}

\* what create_blog_audit_df does in a run: it raises, it returns None after
\* its break, or it returns the record of the first article of the batch
DataRows ==
    { [outcome |-> o, rows |-> <<>>] : o \in {"raises", "None"} }
    \cup { [outcome |-> "returns", rows |-> <<[Title |-> t]>>] : t \in Titles }

RunIo == [load : {"ok", "error"}, save : {"ok", "error"}]

InitReport ==
    /\ xlsx = [exists |-> FALSE, rows |-> <<>>]
    /\ written_runs = <<>>
    /\ run_count = 0
    /\ last_exit = "none"
    /\ CleanIdle /\ PronIdle /\ ApiIdle /\ AnalyzeIdle /\ CostIdle /\ BatchIdle
    /\ StoreIdle /\ ProcessIdle /\ ArticleIdle /\ KeyedIdle

\* one run of main
RunMain ==
    /\ run_count < MaxRuns
    /\ \E data \in DataRows, io \in RunIo :
         \E r \in {main(xlsx, data, io)} :
           /\ xlsx' = r.file
           /\ written_runs' = written_runs \o r.wrote
           /\ last_exit' = r.exit
    /\ run_count' = run_count + 1
    /\ UNCHANGED <<cleanVars, pronVars, apiVars, analyzeVars, costVars, batchVars,
                   storeVars, processVars, articleVars, keyedVars>>

NextReport == RunMain

SpecReport == InitReport /\ [][NextReport]_vars

\* the rows of the records of one run
RowsOf(data) == [k \in 1..Len(data) |-> RowValues(data[k])]

RECURSIVE RowsOfRuns(_, _)
\* the rows of the runs from the k-th on, in order
RowsOfRuns(runs, k) ==
    IF k > Len(runs) THEN <<>>
    ELSE RowsOf(runs[k]) \o RowsOfRuns(runs, k + 1)

----------------------------------------------------------------------------
(* generate_unique_id and the records of the store by id:                  *)
(* src/clean_analysis.py. URLs are ASCII text.                             *)

\* str.isalpha() and str.isalnum() of one ASCII character
IsAlpha(c) == \E i \in 1..26 : UpperLetters[i] = c \/ LowerLetters[i] = c
IsAlnum(c) == c \in Digits \/ IsAlpha(c)

\* the first index >= i of s that holds a character of cs, or Len(s) + 1
FirstIn(s, i, cs) ==
    IF \E k \in i..Len(s) : s[k] \in cs
    THEN CHOOSE k \in i..Len(s) : s[k] \in cs /\ \A m \in i..(k - 1) : s[m] \notin cs
    ELSE Len(s) + 1

\* s.rfind(c): the last index holding c, or 0
LastOf(s, c) ==
    IF \E k \in 1..Len(s) : s[k] = c
    THEN CHOOSE k \in 1..Len(s) : s[k] = c /\ \A m \in (k + 1)..Len(s) : s[m] # c
    ELSE 0

\* urlsplit: leading blanks are stripped, then tab, CR and LF are removed
UrlCleaned(url) ==
    LET Kept(c) == c \notin {"\t", "\r", "\n"}
    IN  SelectSeq(Slice(url, RunEnd(url, 1, {" ", "\t", "\n", "\r", "\f"}), Len(url)), Kept)

\* urlsplit: the scheme is what stands before the first colon, when that is
\* a letter followed by letters, digits, "+", "-" and "."
SplitScheme(url) ==
    Only({ IF /\ i > 1
              /\ IsAlpha(url[1])
              /\ \A k \in 1..(i - 1) : IsAlnum(url[k]) \/ url[k] \in {"+", "-", "."}
           THEN [scheme |-> [k \in 1..(i - 1) |-> Lower(url[k])],
                 url |-> Slice(url, i + 1, Len(url))]
           ELSE [scheme |-> <<>>, url |-> url] :
           i \in {Find(url, ":", 1)} })

\* urlsplit: after "//" the netloc runs up to the first "/", "?" or "#"
SplitNetloc(url) ==
    IF StartsWithAt(url, 1, <<"/", "/">>)
    THEN Only({ [netloc |-> Slice(url, 3, delim - 1), url |-> Slice(url, delim, Len(url))] :
                delim \in {FirstIn(url, 3, {"/", "?", "#"})} })
    ELSE [netloc |-> <<>>, url |-> url]

\* url.split(c, 1)[0]
BeforeFirst(url, c) == Slice(url, 1, FirstIn(url, 1, {c}) - 1)

\* the schemes whose last path segment may carry ";parameters"
uses_params ==
    { <<>>, Chars("ftp"), Chars("hdl"), Chars("prospero"), Chars("http"), Chars("imap"),
      Chars("https"), Chars("shttp"), Chars("rtsp"), Chars("rtsps"), Chars("rtspu"),
      Chars("sip"), Chars("sips"), Chars("mms"), Chars("sftp"), Chars("tel") }

\* urlparse: the parameters of the last path segment are cut off the path
WithoutParams(scheme, url) ==
    IF scheme \in uses_params
    THEN Only({ Slice(url, 1, FirstIn(url, IF slash = 0 THEN 1 ELSE slash, {";"}) - 1) :
                slash \in {LastOf(url, "/")} })
    ELSE url

\* urlparse(url): netloc and path; ValueError on a netloc with one bracket
urlparse(url) ==
    Only({ Only({ [ raised |-> ("[" \in {n.netloc[k] : k \in 1..Len(n.netloc)})
                                # ("]" \in {n.netloc[k] : k \in 1..Len(n.netloc)}),
                    netloc |-> n.netloc,
                    path |-> WithoutParams(sc.scheme,
                                           BeforeFirst(BeforeFirst(n.url, "#"), "?")) ] :
                  n \in {SplitNetloc(sc.url)} }) :
           sc \in {SplitScheme(UrlCleaned(url))} })

\* lines 11-16
generate_unique_id(url) ==
    Only({ IF parsed.raised THEN [raised |-> TRUE, id |-> <<>>]
           ELSE [raised |-> FALSE,
                 id |-> SelectSeq([k \in 1..Len(parsed.netloc \o parsed.path) |->
                                       Lower((parsed.netloc \o parsed.path)[k])], IsAlnum)] :
           parsed \in {urlparse(url)} })

EmptyDict == [id \in {} |-> id]

\* a variant of SetItem that leaves the record of a key that is there
SetItemIfAbsent(data, key, value) ==
    [k \in DOMAIN data \cup {key} |-> IF k \in DOMAIN data THEN data[k] ELSE value]

\* current_data[article_id] = article_analysis (line 47)
SetItem(data, key, value) ==
    [k \in DOMAIN data \cup {key} |-> IF k = key THEN value ELSE data[k]]

NoFile == [kind |-> "absent", data |-> EmptyDict]
ObjectFile(data) == [kind |-> "object", data |-> data]
CutShort == [kind |-> "corrupt", data |-> EmptyDict]

\* load_processed_data (lines 19-32) on a file with its records: the loaded
\* mapping, and the file left at the path (a file that does not parse is
\* renamed away)
LoadRecords(file) ==
    IF file.kind = "object" THEN [value |-> file.data, file |-> file]
    ELSE [value |-> EmptyDict, file |-> NoFile]

RECURSIVE SaveRecordsFrom(_, _, _, _, _)
\* save_processed_data (lines 41-60) on a file with its records: the passes
\* of the for loop from pass n on
SaveRecordsFrom(article_id, article_analysis, writes, n, file) ==
    Only({ IF writes[n + 1] = "ok"
           THEN [result |-> TRUE,
                 file |-> ObjectFile(SetItem(l.value, article_id, article_analysis))]
           ELSE Only({ IF n < save_max_retries - 1
                       THEN SaveRecordsFrom(article_id, article_analysis, writes, n + 1, after)
                       ELSE [result |-> FALSE, file |-> after] :
                       after \in {IF writes[n + 1] = "open_error" THEN l.file ELSE CutShort} }) :
           l \in {LoadRecords(file)} })

----------------------------------------------------------------------------
(* The keyed store specification: articles saved by URL, one after another *)

UrlSchemes == {Chars("http"), Chars("HTTPS")}
UrlHosts == {Chars("Ab.io"), Chars("ab.io")}
UrlPaths == {Chars("/my-post"), Chars("/My_Post/"), <<>>}
\* what follows the path: nothing, or a query and a fragment
UrlTails == {<<>>, Chars("?u=1;v#top/1"), Chars("#top?1")}

\* the URLs of articles: scheme://host/path?query#fragment from their parts,
\* and three texts of another shape
Urls ==
    { [text |-> sc \o Chars("://") \o h \o pa \o t, parts |-> TRUE, host |-> h, path |-> pa] :
      sc \in UrlSchemes, h \in UrlHosts, pa \in UrlPaths, t \in UrlTails }
    \cup { [text |-> t, parts |-> FALSE, host |-> <<>>, path |-> <<>>] :
           t \in { Chars("ab.io/my-post"), Chars(" http://ab.io/x") \o <<"\n">>,
                   Chars("http://[ab.io/x") } }

\* article_id = generate_unique_id(article['url']) for each of the URLs
UniqueIds == [u \in Urls |-> generate_unique_id(u.text)]

Analyses == {"r1", "r2"}

\* what the write of each pass of one save_processed_data call does
KeyedWriteScripts ==
    { [k \in 1..save_max_retries |-> "ok"],
      [k \in 1..save_max_retries |-> IF k = 1 THEN "write_error" ELSE "ok"],
      [k \in 1..save_max_retries |-> "open_error"],
      [k \in 1..save_max_retries |-> "write_error"] }

InitKeyed ==
    /\ processed \in {NoFile, ObjectFile(EmptyDict)}
    /\ save_history = [saved |-> EmptyDict, torn |-> FALSE]
    /\ keyed_call = [op |-> "none"]
    /\ CleanIdle /\ PronIdle /\ ApiIdle /\ AnalyzeIdle /\ CostIdle /\ BatchIdle
    /\ StoreIdle /\ ProcessIdle /\ ArticleIdle /\ ReportIdle

\* process_all_content, lines 211-228, for one article whose analysis
\* returns: the id of its URL, then save_processed_data
SaveArticleByUrl ==
    /\ \E u \in Urls, article_analysis \in Analyses, writes \in KeyedWriteScripts :
         IF UniqueIds[u].raised
         THEN /\ keyed_call' = [op |-> "skipped"]
              /\ UNCHANGED <<processed, save_history>>
         ELSE \E r \in {SaveRecordsFrom(UniqueIds[u].id, article_analysis, writes, 0, processed)} :
                /\ processed' = r.file
                /\ save_history' =
                       [saved |-> IF r.result
                                  THEN [id \in DOMAIN save_history.saved \cup {UniqueIds[u].id} |->
                                           IF id = UniqueIds[u].id THEN article_analysis
                                           ELSE save_history.saved[id]]
                                  ELSE save_history.saved,
                        torn |-> save_history.torn \/ "write_error" \in {writes[k] : k \in 1..save_max_retries}]
                /\ keyed_call' = [op |-> "save", result |-> r.result, article_id |-> UniqueIds[u].id,
                                  article_analysis |-> article_analysis,
                                  parts |-> u.parts, host |-> u.host, path |-> u.path,
                                  previous |-> IF UniqueIds[u].id \in DOMAIN processed.data
                                               THEN processed.data[UniqueIds[u].id]
                                               ELSE "none"]
    /\ UNCHANGED <<cleanVars, pronVars, apiVars, analyzeVars, costVars, batchVars,
                   storeVars, processVars, articleVars, reportVars>>

NextKeyed == SaveArticleByUrl

SpecKeyed == InitKeyed /\ [][NextKeyed]_vars

\* the letters of s in lower case and its digits, in order
LowerAlnum(s) ==
    LET Kept(k) == IsAlnum(s[k])
        RECURSIVE From(_)
        From(k) == IF k > Len(s) THEN <<>>
                   ELSE IF Kept(k) THEN <<Lower(s[k])>> \o From(k + 1)
                   ELSE From(k + 1)
    IN  From(1)

\* C26: the store is keyed by the normalized URL id, the lower-cased host and
\* path without their non-alphanumeric characters, whatever the scheme, query
\* and fragment; it holds one record per id, the whole record of the most
\* recent successful save of that id: a save of an id that is there replaces
\* its record.
C26_KeyedByNormalizedId ==
    /\ \A id \in DOMAIN processed.data :
          /\ id \in DOMAIN save_history.saved
          /\ processed.data[id] = save_history.saved[id]
    /\ (processed.kind = "object" /\ ~save_history.torn) =>
          processed.data = save_history.saved
    /\ keyed_call.op = "save" =>
          /\ keyed_call.parts =>
                keyed_call.article_id = LowerAlnum(keyed_call.host \o keyed_call.path)
          /\ keyed_call.result =>
                /\ processed.kind = "object"
                /\ processed.data[keyed_call.article_id] = keyed_call.article_analysis

\* the record of an id has been replaced by the save of another URL of the
\* same id, next to the record of another id
C26_Witness ==
    /\ keyed_call.op = "save"
    /\ keyed_call.result
    /\ keyed_call.previous \in Analyses \ {keyed_call.article_analysis}
    /\ processed.data[keyed_call.article_id] = keyed_call.article_analysis
    /\ Cardinality(DOMAIN processed.data) >= 2

====
